---- MODULE Spec2Model ----
(***************************************************************************)
(* A model of the provider health and fallback resilience engine of the    *)
(* forge_provider crate: the fallback decision engine (config/fallback.rs),*)
(* the provider selector (selection/mod.rs), the health monitor            *)
(* (health/mod.rs) and the model cache (performance/optimization.rs).      *)
(*                                                                         *)
(* Strings are sequences of atoms. The atom ":latest" stands for the       *)
(* substring the code strips with replace(":latest", ""), the atoms        *)
(* "cloud:" and "local:" for the prefixes the code formats and tests with  *)
(* starts_with; every other atom is a piece of text containing none of     *)
(* them. An Option is a sequence of length at most one.                    *)
(***************************************************************************)
EXTENDS Integers, Sequences, FiniteSets, TLC

VARIABLES
    fcfg,               \* FallbackEngine.config / ProviderSelector.fallback_config
    lcfg,               \* LocalAiConfig.providers: name -> preferred_models
    eng,                \* the last call of the fallback engine: inputs and result
    health_status,      \* HealthMonitor.health_status: name -> ProviderHealthInfo
    probes_left,        \* probes the environment may still answer
    provider_metrics,   \* ProviderSelector.provider_metrics
    current_provider,   \* ProviderSelector.current_provider (Option)
    last_fallback_time, \* ProviderSelector.last_fallback_time (Option)
    now,                \* the monotonic clock read by Instant::now()
    sel,                \* the last selector call: pre-state, inputs and result
    models,             \* ModelCache.models: cache key -> CachedModel
    total_size_bytes,   \* ModelCache.total_size_bytes
    max_size_bytes,     \* ModelCache.max_size_bytes
    cache_call,         \* the last cache call: inputs and result
    probe_log,          \* every probe result stored so far, per provider, in arrival order
    hm,                 \* the last call of the health monitor: inputs and result
    env_status,         \* what each provider's check_health answers at the moment
    started,            \* HealthMonitor::start has returned
    success_log,        \* the latencies passed to record_success so far, per provider
    pm_enabled,         \* PerformanceMonitor.config.enabled
    pm_metrics,         \* PerformanceMonitor.metrics
    pm_measurements,    \* PerformanceMonitor.measurements
    pm_tasks,           \* record_measurement calls in flight: task -> measurement
    hccfg,              \* LocalProviderConfig.health_check of the configured providers
    probe_tasks,        \* health monitor calls in flight: task -> position and locals
    hs_lock,            \* the RwLock of health_status: its writer and its readers
    checker_order       \* the iteration order of HealthMonitor.checkers

vars == <<fcfg, lcfg, eng, health_status, probes_left, provider_metrics,
          current_provider, last_fallback_time, now, sel,
          models, total_size_bytes, max_size_bytes, cache_call,
          probe_log, hm, env_status, started, success_log,
          pm_enabled, pm_metrics, pm_measurements, pm_tasks,
          hccfg, probe_tasks, hs_lock, checker_order>>

engineVars == <<eng>>
selectorVars == <<health_status, probes_left, provider_metrics,
                  current_provider, last_fallback_time, now, sel>>
cacheVars == <<models, total_size_bytes, max_size_bytes, cache_call>>
monitorVars == <<probe_log, hm, env_status, started>>
perfVars == <<pm_enabled, pm_metrics, pm_measurements, pm_tasks>>
probeVars == <<hccfg, probe_tasks, hs_lock, checker_order>>

(***************************************************************************)
(* Bounds of the exploration.                                              *)
(***************************************************************************)
MaxRetriesBound == 2
MaxFailures == 3
MaxDelay == 2
MaxElapsed == 3
MaxTime == 2
MaxProbes == 2
MaxRequests == 2
MaxAccess == 2
MaxCacheTime == 2
MaxHealthProbes == 2
MaxRecords == 3
MaxMeasurements == 2
MaxMeasured == 3

(***************************************************************************)
(* Options and strings.                                                    *)
(***************************************************************************)
None == <<>>
Some(x) == <<x>>
IsSome(o) == Len(o) > 0
Unwrap(o) == o[1]

\* str::starts_with
starts_with(s, prefix) ==
    /\ Len(prefix) <= Len(s)
    /\ SubSeq(s, 1, Len(prefix)) = prefix

\* preferred.replace(":latest", "")
replace_latest(s) == SelectSeq(s, LAMBDA a : a # ":latest")

\* format!("local:{name}") and format!("cloud:{provider}")
format_local(name) == <<"local:">> \o name
format_cloud(provider) == <<"cloud:">> \o provider

\* Iterator::find over a slice, given for each element whether the predicate
\* holds: the index of the first element it holds for, 0 if none
FindFirst(flags) ==
    IF \E i \in 1..Len(flags) : flags[i]
    THEN CHOOSE i \in 1..Len(flags) : flags[i] /\ \A j \in 1..(i - 1) : ~flags[j]
    ELSE 0

\* iter().map(|(name, _)| name.clone()).collect()
NamesOf(local_health) == [i \in 1..Len(local_health) |-> local_health[i].name]

(***************************************************************************)
(* ProviderHealthStatus (config/local_ai.rs).                              *)
(***************************************************************************)
ProviderHealthStatus == {"Healthy", "Degraded", "Unhealthy"}

is_usable(status) == status \in {"Healthy", "Degraded"}

(***************************************************************************)
(* FallbackEngine (config/fallback.rs).                                    *)
(***************************************************************************)
FallbackStrategy == {"Graceful", "Immediate", "Manual", "None"}

provider_supports_model(provider_name, model_id) ==
    IF provider_name \in DOMAIN lcfg
    THEN LET preferred_models == lcfg[provider_name]
         IN  IF preferred_models = <<>>
             THEN TRUE
             ELSE \E i \in 1..Len(preferred_models) :
                     \/ preferred_models[i] = model_id
                     \/ starts_with(model_id, replace_latest(preferred_models[i]))
    ELSE FALSE

find_healthy_local_provider_or_degraded(context, local_health) ==
    FindFirst([i \in 1..Len(local_health) |->
                  is_usable(local_health[i].status) /\ provider_supports_model(local_health[i].name, context.model_id)])

find_healthy_local_provider(context, local_health) ==
    FindFirst([i \in 1..Len(local_health) |->
                  local_health[i].status = "Healthy" /\ provider_supports_model(local_health[i].name, context.model_id)])

find_usable_local_provider(context, local_health) ==
    FindFirst([i \in 1..Len(local_health) |->
                  is_usable(local_health[i].status) /\ provider_supports_model(local_health[i].name, context.model_id)])

cloud_provider_supports_features(provider, context) ==
    CASE provider = <<"openai">> -> TRUE
      [] provider = <<"anthropic">> -> TRUE
      [] OTHER -> ~context.requires_tools

select_cloud_provider_strict(context) ==
    LET suitable_providers ==
            SelectSeq(fcfg.cloud_providers,
                      LAMBDA p : cloud_provider_supports_features(p, context))
    IN  IF suitable_providers # <<>> THEN Some(suitable_providers[1]) ELSE None

select_cloud_provider(context) ==
    IF fcfg.cloud_providers = <<>>
    THEN None
    ELSE LET suitable_providers ==
                 SelectSeq(fcfg.cloud_providers,
                           LAMBDA p : cloud_provider_supports_features(p, context))
         IN  IF suitable_providers # <<>>
             THEN Some(suitable_providers[1])
             ELSE Some(fcfg.cloud_providers[1])

UseLocal(name) == [kind |-> "UseLocal", provider_name |-> name]
UseCloud(name, local_status) ==
    [kind |-> "UseCloud", provider_name |-> name, local_status |-> local_status]
RequireManual(options) == [kind |-> "RequireManual", available_options |-> options]
NoProvider(attempted) == [kind |-> "NoProvider", attempted_providers |-> attempted]

\* local_health.first().map(|(_, status)| status.clone())
FirstStatus(local_health) ==
    IF local_health = <<>> THEN None ELSE Some(local_health[1].status)

decide_local_only_cloud(context, local_health) ==
    LET i == find_healthy_local_provider(context, local_health)
        c == select_cloud_provider(context)
    IN  IF i # 0 THEN UseLocal(local_health[i].name)
        ELSE IF IsSome(c) THEN UseCloud(Unwrap(c), FirstStatus(local_health))
        ELSE NoProvider(<<>>)

decide_local_only(context, local_health) ==
    LET i == find_healthy_local_provider(context, local_health)
    IN  IF i # 0
        THEN UseLocal(local_health[i].name)
        ELSE NoProvider(NamesOf(local_health))

\* the options of decide_manual: the Degraded entries, then the cloud providers
ManualOptions(local_health) ==
    LET degraded == SelectSeq(local_health, LAMBDA e : e.status = "Degraded")
    IN  [i \in 1..Len(degraded) |-> format_local(degraded[i].name)]
        \o [i \in 1..Len(fcfg.cloud_providers) |-> format_cloud(fcfg.cloud_providers[i])]

decide_manual_auto(context, local_health) ==
    LET i == find_healthy_local_provider(context, local_health)
        c == select_cloud_provider(context)
    IN  IF i # 0 THEN UseLocal(local_health[i].name)
        ELSE IF IsSome(c) THEN UseCloud(Unwrap(c), FirstStatus(local_health))
        ELSE RequireManual(ManualOptions(local_health))

decide_manual(context, local_health) ==
    LET i == find_healthy_local_provider(context, local_health)
    IN  IF i # 0
        THEN UseLocal(local_health[i].name)
        ELSE RequireManual(ManualOptions(local_health))

decide_immediate(context, local_health) ==
    LET i == find_healthy_local_provider(context, local_health)
        c == select_cloud_provider(context)
    IN  IF i # 0
        THEN UseLocal(local_health[i].name)
        ELSE IF IsSome(c)
        THEN UseCloud(Unwrap(c), FirstStatus(local_health))
        ELSE NoProvider(NamesOf(local_health))

decide_graceful_le(context, local_health) ==
    LET i == find_usable_local_provider(context, local_health)
        c == select_cloud_provider(context)
    IN  IF context.consecutive_failures <= fcfg.max_retries /\ i # 0
        THEN UseLocal(local_health[i].name)
        ELSE IF IsSome(c)
        THEN UseCloud(Unwrap(c), FirstStatus(local_health))
        ELSE NoProvider(NamesOf(local_health))

decide_graceful(context, local_health) ==
    LET i == find_usable_local_provider(context, local_health)
        c == select_cloud_provider(context)
    IN  IF context.consecutive_failures < fcfg.max_retries /\ i # 0
        THEN UseLocal(local_health[i].name)
        ELSE IF IsSome(c)
        THEN UseCloud(Unwrap(c), FirstStatus(local_health))
        ELSE NoProvider(NamesOf(local_health))

decide_provider(context, local_health) ==
    CASE fcfg.strategy = "None" -> decide_local_only(context, local_health)
      [] fcfg.strategy = "Manual" -> decide_manual(context, local_health)
      [] fcfg.strategy = "Immediate" -> decide_immediate(context, local_health)
      [] fcfg.strategy = "Graceful" -> decide_graceful(context, local_health)

should_return_to_local_usable(current, local_health, time_since_fallback) ==
    LET i == FindFirst([k \in 1..Len(local_health) |->
                  is_usable(local_health[k].status)])
    IN  IF ~fcfg.auto_return_to_local THEN None
        ELSE IF ~starts_with(current, <<"cloud:">>) THEN None
        ELSE IF time_since_fallback < fcfg.local_recovery_delay_seconds THEN None
        ELSE IF i = 0 THEN None
        ELSE Some(local_health[i].name)

should_return_to_local_any_status(current, local_health, time_since_fallback) ==
    IF ~fcfg.auto_return_to_local THEN None
    ELSE IF ~starts_with(current, <<"cloud:">>) THEN None
    ELSE IF time_since_fallback < fcfg.local_recovery_delay_seconds THEN None
    ELSE IF Len(local_health) = 0 THEN None
    ELSE Some(local_health[Len(local_health)].name)

should_return_to_local(current, local_health, time_since_fallback) ==
    LET i == FindFirst([k \in 1..Len(local_health) |->
                  local_health[k].status = "Healthy"])
    IN  IF ~fcfg.auto_return_to_local THEN None
        ELSE IF ~starts_with(current, <<"cloud:">>) THEN None
        ELSE IF time_since_fallback < fcfg.local_recovery_delay_seconds THEN None
        ELSE IF i = 0 THEN None
        ELSE Some(local_health[i].name)

(***************************************************************************)
(* HealthMonitor (health/mod.rs). A ProviderHealthInfo keeps status, the   *)
(* two consecutive counters and check_history; timestamps and response     *)
(* times, which no decision reads, are left out. A probe outcome is the    *)
(* status the checker returned, or "Err" when check_health failed.         *)
(***************************************************************************)
HistoryCap == 10

ProbeOutcomes == ProviderHealthStatus \cup {"Err"}

EmptyMap == [x \in {} |-> x]

update_health_info_keeps_streak(current_info, new_status, check_result) ==
    IF IsSome(current_info)
    THEN LET info == Unwrap(current_info)
             pushed == Append(info.check_history, check_result)
         IN  [status |-> new_status,
              consecutive_failures |->
                  IF check_result.success THEN info.consecutive_failures
                  ELSE info.consecutive_failures + 1,
              consecutive_successes |->
                  IF check_result.success THEN info.consecutive_successes + 1 ELSE 0,
              check_history |->
                  IF Len(pushed) > HistoryCap THEN Tail(pushed) ELSE pushed]
    ELSE [status |-> new_status,
          consecutive_failures |-> IF check_result.success THEN 0 ELSE 1,
          consecutive_successes |-> IF check_result.success THEN 1 ELSE 0,
          check_history |-> <<check_result>>]

update_health_info_keeps_successes(current_info, new_status, check_result) ==
    IF IsSome(current_info)
    THEN LET info == Unwrap(current_info)
             pushed == Append(info.check_history, check_result)
         IN  [status |-> new_status,
              consecutive_failures |->
                  IF check_result.success THEN 0 ELSE info.consecutive_failures + 1,
              consecutive_successes |->
                  IF check_result.success THEN info.consecutive_successes + 1
                  ELSE info.consecutive_successes,
              check_history |->
                  IF Len(pushed) > HistoryCap THEN Tail(pushed) ELSE pushed]
    ELSE [status |-> new_status,
          consecutive_failures |-> IF check_result.success THEN 0 ELSE 1,
          consecutive_successes |-> IF check_result.success THEN 1 ELSE 0,
          check_history |-> <<check_result>>]

update_health_info(current_info, new_status, check_result) ==
    IF IsSome(current_info)
    THEN LET info == Unwrap(current_info)
             pushed == Append(info.check_history, check_result)
         IN  [status |-> new_status,
              consecutive_failures |->
                  IF check_result.success THEN 0 ELSE info.consecutive_failures + 1,
              consecutive_successes |->
                  IF check_result.success THEN info.consecutive_successes + 1 ELSE 0,
              check_history |->
                  IF Len(pushed) > HistoryCap THEN Tail(pushed) ELSE pushed]
    ELSE [status |-> new_status,
          consecutive_failures |-> IF check_result.success THEN 0 ELSE 1,
          consecutive_successes |-> IF check_result.success THEN 1 ELSE 0,
          check_history |-> <<check_result>>]

\* health_status.get(provider_name).cloned()
GetInfo(hs, provider_name) ==
    IF provider_name \in DOMAIN hs THEN Some(hs[provider_name]) ELSE None

check_provider_health(hs, provider_name, outcome) ==
    IF outcome = "Err"
    THEN update_health_info(GetInfo(hs, provider_name), "Unhealthy",
                            [success |-> FALSE, error |-> TRUE])
    ELSE update_health_info(GetInfo(hs, provider_name), outcome,
                            [success |-> is_usable(outcome), error |-> FALSE])

\* HealthMonitor::new: one checker per enabled provider (every provider is enabled)
checkers == DOMAIN lcfg

\* perform_initial_checks run with no other call in between: every checker is
\* probed, and the info check_provider_health returns (it never fails) is
\* inserted; outcomes maps each checker to what its probe answers
perform_initial_checks(hs, outcomes) ==
    [p \in DOMAIN hs \cup checkers |->
        IF p \in checkers THEN check_provider_health(hs, p, outcomes[p]) ELSE hs[p]]

\* start_provider_monitoring only logs the interval: no task is spawned
\* and no field changes
start_provider_monitoring(hs, provider_name) == hs

\* HealthMonitor::start: the initial checks, then start_provider_monitoring
\* for every checker
start(hs, outcomes) ==
    LET checked == perform_initial_checks(hs, outcomes)
    IN  [p \in DOMAIN checked |-> start_provider_monitoring(checked, p)[p]]

get_provider_health(hs, provider_name) ==
    IF provider_name \in DOMAIN hs THEN Some(hs[provider_name].status) ELSE None

is_provider_usable_healthy_only(hs, provider_name) ==
    LET status == get_provider_health(hs, provider_name)
    IN  IF IsSome(status) THEN Unwrap(status) = "Healthy" ELSE FALSE

is_provider_usable(hs, provider_name) ==
    LET status == get_provider_health(hs, provider_name)
    IN  IF IsSome(status) THEN is_usable(Unwrap(status)) ELSE FALSE

\* the HealthCheckResult check_provider_health builds for a probe outcome
probe_result(outcome) ==
    [success |-> outcome # "Err" /\ is_usable(outcome), error |-> outcome = "Err"]

\* probe_log after every provider in the domain of outcomes was probed once
log_probes(log, outcomes) ==
    [p \in DOMAIN log \cup DOMAIN outcomes |->
        IF p \in DOMAIN outcomes
        THEN (IF p \in DOMAIN log THEN log[p] ELSE <<>>) \o <<probe_result(outcomes[p])>>
        ELSE log[p]]

status_priority(status) ==
    CASE status = "Healthy" -> 0
      [] status = "Degraded" -> 1
      [] status = "Unhealthy" -> 2

\* health_status.iter().map(..).collect(): the entries in the iteration
\* order of the HashMap, which is any order
iter_health_status(hs) ==
    LET n == Cardinality(DOMAIN hs)
        orders == { f \in [1..n -> DOMAIN hs] : \A i, j \in 1..n : i # j => f[i] # f[j] }
    IN  { [i \in 1..n |-> [name |-> f[i], status |-> hs[f[i]].status]] : f \in orders }

sort_by_status_priority_unsorted(providers) == providers

\* providers.sort_by(priority): a stable sort on the three priorities
sort_by_status_priority(providers) ==
    LET bucket(k) == SelectSeq(providers, LAMBDA e : status_priority(e.status) = k)
    IN  bucket(0) \o bucket(1) \o bucket(2)

get_providers_by_health(hs) ==
    { sort_by_status_priority(providers) : providers \in iter_health_status(hs) }

(***************************************************************************)
(* ProviderSelector (selection/mod.rs).                                    *)
(***************************************************************************)
\* ProviderMetrics::new; last_request_time is left out
NewMetrics(provider_type) ==
    [total_requests |-> 0, successful_requests |-> 0, avg_response_time |-> 0,
     provider_type |-> provider_type]

CloudKeys == { format_cloud(fcfg.cloud_providers[i]) : i \in 1..Len(fcfg.cloud_providers) }

\* the metrics map after initialize: every configured local, then every cloud provider
initialize_metrics(metrics) ==
    [p \in DOMAIN metrics \cup DOMAIN lcfg \cup CloudKeys |->
        IF p \in CloudKeys THEN NewMetrics("Cloud")
        ELSE IF p \in DOMAIN lcfg THEN NewMetrics("Local")
        ELSE metrics[p]]

check_return_to_local_never(local_health) == None

check_return_to_local(local_health) ==
    IF /\ IsSome(current_provider)
       /\ starts_with(Unwrap(current_provider), <<"cloud:">>)
       /\ IsSome(last_fallback_time)
    THEN should_return_to_local(Unwrap(current_provider), local_health,
                                now - Unwrap(last_fallback_time))
    ELSE None

Selection(name, type, is_fallback) ==
    [ok |-> TRUE, provider_name |-> name, provider_type |-> type,
     is_fallback |-> is_fallback]
SelectionError(kind) == [ok |-> FALSE, error |-> kind]

convert_decision_to_selection_marks_first(decision) ==
    [last_fallback_time |-> IF decision.kind = "UseLocal" THEN last_fallback_time
                            ELSE Some(now),
     result |->
        CASE decision.kind = "UseLocal" ->
                 Selection(decision.provider_name, "Local", FALSE)
          [] decision.kind = "UseCloud" ->
                 Selection(format_cloud(decision.provider_name), "Cloud", TRUE)
          [] OTHER -> SelectionError(decision.kind)]

\* the selection or error, and last_fallback_time after the conversion
convert_decision_to_selection_keeps_time(decision) ==
    CASE decision.kind = "UseLocal" ->
             [last_fallback_time |-> last_fallback_time,
              result |-> Selection(decision.provider_name, "Local", FALSE)]
      [] decision.kind = "UseCloud" ->
             [last_fallback_time |-> last_fallback_time,
              result |-> Selection(format_cloud(decision.provider_name), "Cloud", TRUE)]
      [] decision.kind = "RequireManual" ->
             [last_fallback_time |-> last_fallback_time,
              result |-> SelectionError("RequireManual")]
      [] decision.kind = "NoProvider" ->
             [last_fallback_time |-> last_fallback_time,
              result |-> SelectionError("NoProvider")]

convert_decision_to_selection(decision) ==
    CASE decision.kind = "UseLocal" ->
             [last_fallback_time |-> last_fallback_time,
              result |-> Selection(decision.provider_name, "Local", FALSE)]
      [] decision.kind = "UseCloud" ->
             [last_fallback_time |-> Some(now),
              result |-> Selection(format_cloud(decision.provider_name), "Cloud", TRUE)]
      [] decision.kind = "RequireManual" ->
             [last_fallback_time |-> last_fallback_time,
              result |-> SelectionError("RequireManual")]
      [] decision.kind = "NoProvider" ->
             [last_fallback_time |-> last_fallback_time,
              result |-> SelectionError("NoProvider")]

update_selection_metrics(metrics, selection) ==
    IF selection.provider_name \in DOMAIN metrics
    THEN [metrics EXCEPT ![selection.provider_name].total_requests = @ + 1]
    ELSE metrics

\* SelectionContext -> FallbackContext
fallback_context(context) ==
    [model_id |-> context.model_id,
     requires_tools |-> context.requires_tools,
     consecutive_failures |-> context.consecutive_failures]

\* select_provider on the snapshot local_health: the result and the selector's fields after it
select_provider(context, local_health) ==
    LET back == check_return_to_local(local_health)
        decision == decide_provider(fallback_context(context), local_health)
        conv == convert_decision_to_selection(decision)
    IN  IF IsSome(back)
        THEN [result |-> Selection(Unwrap(back), "Local", FALSE),
              returned |-> TRUE,
              current_provider |-> back,
              last_fallback_time |-> last_fallback_time,
              provider_metrics |-> provider_metrics]
        ELSE IF conv.result.ok
        THEN [result |-> conv.result,
              returned |-> FALSE,
              current_provider |-> Some(conv.result.provider_name),
              last_fallback_time |-> conv.last_fallback_time,
              provider_metrics |-> update_selection_metrics(provider_metrics, conv.result)]
        ELSE [result |-> conv.result,
              returned |-> FALSE,
              current_provider |-> current_provider,
              last_fallback_time |-> conv.last_fallback_time,
              provider_metrics |-> provider_metrics]

\* Duration::from_millis(u64::MAX), the value an infinite f64 saturates to in
\* `new_avg as u64`; the number itself is beyond the integers of the model
U64MaxMs == -1

\* a Duration of at least 2^63 ms and below u64::MAX ms, which the model does
\* not resolve further
HugeMs == -2

\* (current_avg * (total_requests - 1.0) + new_time) / total_requests in f64,
\* cast to u64: a division by 0.0 gives +inf, -inf or NaN, which the cast
\* turns into u64::MAX, 0 and 0
new_avg_ms(total_requests, current_avg, new_time) ==
    IF total_requests = 0
    THEN IF current_avg = U64MaxMs THEN 0
         ELSE IF new_time - current_avg > 0 THEN U64MaxMs
         ELSE 0
    ELSE IF current_avg = U64MaxMs
    THEN IF total_requests = 1 THEN new_time ELSE HugeMs
    ELSE (current_avg * (total_requests - 1) + new_time) \div total_requests

record_success(metrics, provider_name, response_time) ==
    IF provider_name \in DOMAIN metrics
    THEN LET m == metrics[provider_name]
         IN  [metrics EXCEPT ![provider_name] =
                 [m EXCEPT !.successful_requests = @ + 1,
                           !.avg_response_time =
                               new_avg_ms(m.total_requests, m.avg_response_time,
                                          response_time)]]
    ELSE metrics

\* record_failure logs the error and changes no field
record_failure(metrics, provider_name, error) == metrics

(***************************************************************************)
(* PerformanceMonitor (performance/mod.rs). Durations are in nanoseconds.  *)
(* A measurement is its provider_name, its success flag and its duration.  *)
(***************************************************************************)
\* performance::ProviderMetrics::new; throughput is total_requests / 60 and
\* is left out with the resource fields
PmNewMetrics ==
    [total_requests |-> 0, successful_requests |-> 0, failed_requests |-> 0,
     avg_response_time |-> 0, min_response_time |-> 0, max_response_time |-> 0,
     p95_response_time |-> 0, p99_response_time |-> 0]

\* the part of record_measurement under the write lock of measurements
push_measurement(measurements, measurement) ==
    LET pushed == Append(measurements, measurement)
    IN  IF Len(pushed) > MaxMeasurements THEN Tail(pushed) ELSE pushed

update_provider_metrics_drops_failed(metrics, measurement) ==
    LET name == measurement.provider_name
        old == IF name \in DOMAIN metrics THEN metrics[name] ELSE PmNewMetrics
        total == old.total_requests + 1
        response_time == measurement.duration
        counted == [old EXCEPT !.total_requests = total,
                               !.successful_requests =
                                   IF measurement.success THEN @ + 1 ELSE @]
        timed ==
            IF total = 1
            THEN [counted EXCEPT !.avg_response_time = response_time,
                                 !.min_response_time = response_time,
                                 !.max_response_time = response_time,
                                 !.p95_response_time = response_time,
                                 !.p99_response_time = response_time]
            ELSE [counted EXCEPT
                    !.avg_response_time =
                        (old.avg_response_time * (total - 1) + response_time) \div total,
                    !.min_response_time = IF response_time < @ THEN response_time ELSE @,
                    !.max_response_time = IF response_time > @ THEN response_time ELSE @]
    IN  [p \in DOMAIN metrics \cup {name} |-> IF p = name THEN timed ELSE metrics[p]]

\* update_provider_metrics, all of it under the write lock of metrics
update_provider_metrics_overweights(metrics, measurement) ==
    LET name == measurement.provider_name
        old == IF name \in DOMAIN metrics THEN metrics[name] ELSE PmNewMetrics
        total == old.total_requests + 1
        response_time == measurement.duration
        counted == [old EXCEPT !.total_requests = total,
                               !.successful_requests =
                                   IF measurement.success THEN @ + 1 ELSE @,
                               !.failed_requests =
                                   IF measurement.success THEN @ ELSE @ + 1]
        timed ==
            IF total = 1
            THEN [counted EXCEPT !.avg_response_time = response_time,
                                 !.min_response_time = response_time,
                                 !.max_response_time = response_time,
                                 !.p95_response_time = response_time,
                                 !.p99_response_time = response_time]
            ELSE [counted EXCEPT
                    !.avg_response_time =
                        (old.avg_response_time * total + response_time) \div total,
                    !.min_response_time = IF response_time < @ THEN response_time ELSE @,
                    !.max_response_time = IF response_time > @ THEN response_time ELSE @]
    IN  [p \in DOMAIN metrics \cup {name} |-> IF p = name THEN timed ELSE metrics[p]]

update_provider_metrics(metrics, measurement) ==
    LET name == measurement.provider_name
        old == IF name \in DOMAIN metrics THEN metrics[name] ELSE PmNewMetrics
        total == old.total_requests + 1
        response_time == measurement.duration
        counted == [old EXCEPT !.total_requests = total,
                               !.successful_requests =
                                   IF measurement.success THEN @ + 1 ELSE @,
                               !.failed_requests =
                                   IF measurement.success THEN @ ELSE @ + 1]
        timed ==
            IF total = 1
            THEN [counted EXCEPT !.avg_response_time = response_time,
                                 !.min_response_time = response_time,
                                 !.max_response_time = response_time,
                                 !.p95_response_time = response_time,
                                 !.p99_response_time = response_time]
            ELSE [counted EXCEPT
                    !.avg_response_time =
                        (old.avg_response_time * (total - 1) + response_time) \div total,
                    !.min_response_time = IF response_time < @ THEN response_time ELSE @,
                    !.max_response_time = IF response_time > @ THEN response_time ELSE @]
    IN  [p \in DOMAIN metrics \cup {name} |-> IF p = name THEN timed ELSE metrics[p]]

(***************************************************************************)
(* ModelCache and ModelLoadingOptimizer (performance/optimization.rs).     *)
(* Sizes are in bytes.                                                     *)
(***************************************************************************)
\* the simulated size of every model: 100 MB
model_size == 1024 * 1024 * 100

\* OptimizationConfig::cache_ttl, in ticks of the clock of the cache
cache_ttl == 1

\* ModelCache::new(config.max_cache_size_mb * 1024 * 1024)
cache_capacity(max_cache_size_mb) == max_cache_size_mb * 1024 * 1024

\* format!("{}:{}", provider_name, model_name)
cache_key(provider_name, model_name) == provider_name \o <<":">> \o model_name

LruOrdersAnyOrder(m) ==
    LET n == Cardinality(DOMAIN m)
    IN  { f \in [1..n -> DOMAIN m] : \A i, j \in 1..n : i # j => f[i] # f[j] }

\* the orders sort_by_key(last_accessed) may leave the entries in: the sort is
\* stable over the iteration order of the HashMap, which is any order
LruOrders(m) ==
    LET n == Cardinality(DOMAIN m)
    IN  { f \in [1..n -> DOMAIN m] :
            /\ \A i, j \in 1..n : i # j => f[i] # f[j]
            /\ \A i, j \in 1..n : i < j => m[f[i]].last_accessed <= m[f[j]].last_accessed }

\* space_freed once the first k entries of the order are taken
RECURSIVE SpaceFreed(_, _, _)
SpaceFreed(m, order, k) ==
    IF k = 0 THEN 0 ELSE SpaceFreed(m, order, k - 1) + m[order[k]].size_bytes

\* how many entries the loop of evict_lru_models takes before it breaks
EvictCount(m, order, space_needed) ==
    IF \E k \in 0..Len(order) : SpaceFreed(m, order, k) >= space_needed
    THEN CHOOSE k \in 0..Len(order) :
            /\ SpaceFreed(m, order, k) >= space_needed
            /\ \A j \in 0..(k - 1) : SpaceFreed(m, order, j) < space_needed
    ELSE Len(order)

evict_lru_models_never_fails(m, total, order, space_needed) ==
    LET k == EvictCount(m, order, space_needed)
        removed == { order[i] : i \in 1..k }
        space_freed == SpaceFreed(m, order, k)
    IN  [models |-> [key \in DOMAIN m \ removed |-> m[key]],
         total_size_bytes |-> total - space_freed,
         ok |-> TRUE]

evict_lru_models_rolls_back_total(m, total, order, space_needed) ==
    LET k == EvictCount(m, order, space_needed)
        removed == { order[i] : i \in 1..k }
        space_freed == SpaceFreed(m, order, k)
    IN  [models |-> [key \in DOMAIN m \ removed |-> m[key]],
         total_size_bytes |-> IF space_freed >= space_needed
                              THEN total - space_freed ELSE total,
         ok |-> space_freed >= space_needed]

\* evict_lru_models on the cache (m, total): the cache after it and whether it returned Ok
evict_lru_models(m, total, order, space_needed) ==
    LET k == EvictCount(m, order, space_needed)
        removed == { order[i] : i \in 1..k }
        space_freed == SpaceFreed(m, order, k)
    IN  [models |-> [key \in DOMAIN m \ removed |-> m[key]],
         total_size_bytes |-> total - space_freed,
         ok |-> space_freed >= space_needed]

apply_model_caching_unchecked(key, order) ==
    IF key \in DOMAIN models
    THEN [models |-> [models EXCEPT ![key].last_accessed = now,
                                    ![key].access_count = @ + 1],
          total_size_bytes |-> total_size_bytes,
          result |-> "hit"]
    ELSE LET ev == IF total_size_bytes > max_size_bytes
                   THEN evict_lru_models(models, total_size_bytes, order, model_size)
                   ELSE [models |-> models, total_size_bytes |-> total_size_bytes,
                         ok |-> TRUE]
             cached_model == [size_bytes |-> model_size, cached_at |-> now,
                              last_accessed |-> now, access_count |-> 1,
                         ttl |-> cache_ttl]
         IN  IF ~ev.ok
             THEN [models |-> ev.models, total_size_bytes |-> ev.total_size_bytes,
                   result |-> "error"]
             ELSE [models |-> [k \in DOMAIN ev.models \cup {key} |->
                                  IF k = key THEN cached_model ELSE ev.models[k]],
                   total_size_bytes |-> ev.total_size_bytes + model_size,
                   result |-> "miss"]

apply_model_caching_recaches(key, order) ==
    LET ev == IF total_size_bytes + model_size > max_size_bytes
              THEN evict_lru_models(models, total_size_bytes, order, model_size)
              ELSE [models |-> models, total_size_bytes |-> total_size_bytes,
                    ok |-> TRUE]
        cached_model == [size_bytes |-> model_size, cached_at |-> now,
                         last_accessed |-> now, access_count |-> 1,
                         ttl |-> cache_ttl]
    IN  IF ~ev.ok
        THEN [models |-> ev.models, total_size_bytes |-> ev.total_size_bytes,
              result |-> "error"]
        ELSE [models |-> [k \in DOMAIN ev.models \cup {key} |->
                             IF k = key THEN cached_model ELSE ev.models[k]],
              total_size_bytes |-> ev.total_size_bytes + model_size,
              result |-> IF key \in DOMAIN models THEN "hit" ELSE "miss"]

\* apply_model_caching for the key: the cache after it and "hit", "miss" or "error"
apply_model_caching(key, order) ==
    IF key \in DOMAIN models
    THEN [models |-> [models EXCEPT ![key].last_accessed = now,
                                    ![key].access_count = @ + 1],
          total_size_bytes |-> total_size_bytes,
          result |-> "hit"]
    ELSE LET ev == IF total_size_bytes + model_size > max_size_bytes
                   THEN evict_lru_models(models, total_size_bytes, order, model_size)
                   ELSE [models |-> models, total_size_bytes |-> total_size_bytes,
                         ok |-> TRUE]
             cached_model == [size_bytes |-> model_size, cached_at |-> now,
                              last_accessed |-> now, access_count |-> 1,
                         ttl |-> cache_ttl]
         IN  IF ~ev.ok
             THEN [models |-> ev.models, total_size_bytes |-> ev.total_size_bytes,
                   result |-> "error"]
             ELSE [models |-> [k \in DOMAIN ev.models \cup {key} |->
                                  IF k = key THEN cached_model ELSE ev.models[k]],
                   total_size_bytes |-> ev.total_size_bytes + model_size,
                   result |-> "miss"]

(***************************************************************************)
(* Configurations and inputs the exploration draws from.                   *)
(***************************************************************************)
Ollama == <<"ollama">>
LmStudio == <<"lmstudio">>

\* LocalAiConfig::with_default_ollama, and two configurations with a second provider
DefaultOllama ==
    (Ollama :> << <<"llama3.2", ":latest">>, <<"codellama", ":latest">> >>)
TwoProviders ==
    (Ollama :> <<>>) @@ (LmStudio :> << <<"mistral">> >>)
TaggedProviders ==
    (Ollama :> << <<"llama3.2", ":7b">> >>) @@ (LmStudio :> << <<"llama3.2", ":latest">> >>)
LocalConfigs == {DefaultOllama, TwoProviders, TaggedProviders}

ModelIds == { <<"llama3.2", ":latest">>, <<"llama3.2", ":7b">>, <<"gpt-4">> }

CloudProviderLists ==
    { <<>>,
      << <<"openai">>, <<"anthropic">> >>,
      << <<"custom">> >>,
      << <<"custom">>, <<"anthropic">> >> }

\* FallbackConfig::default
DefaultFallbackConfig ==
    [strategy |-> "Graceful",
     cloud_providers |-> << <<"openai">>, <<"anthropic">> >>,
     notify_user |-> TRUE,
     max_retries |-> 3,
     retry_delay_ms |-> 1000,
     decision_timeout_seconds |-> 10,
     auto_return_to_local |-> TRUE,
     local_recovery_delay_seconds |-> 60]

\* the default configuration with local_recovery_delay_seconds set (the
\* struct's setter) to a delay that the bounded clock reaches
ShortRecoveryConfig ==
    [DefaultFallbackConfig EXCEPT !.local_recovery_delay_seconds = MaxDelay]

\* configurations that vary what decide_provider reads
DecideConfigs ==
    { [DefaultFallbackConfig EXCEPT !.strategy = s, !.cloud_providers = c, !.max_retries = r] :
        s \in FallbackStrategy, c \in CloudProviderLists,
        r \in (0..MaxRetriesBound) \cup {DefaultFallbackConfig.max_retries} }

\* configurations that vary what should_return_to_local reads
ReturnConfigs ==
    { [DefaultFallbackConfig EXCEPT !.auto_return_to_local = a,
                                    !.local_recovery_delay_seconds = d] :
        a \in BOOLEAN, d \in 0..MaxDelay }

FallbackContexts ==
    [model_id : ModelIds, requires_tools : BOOLEAN, consecutive_failures : 0..MaxFailures]

SnapshotNames == {Ollama, LmStudio}
HealthEntries == [name : SnapshotNames, status : ProviderHealthStatus]

\* health snapshots: every list of entries with distinct provider names
Snapshots ==
    {<<>>} \cup { <<e>> : e \in HealthEntries }
           \cup { s \in { <<e, f>> : e \in HealthEntries, f \in HealthEntries } :
                     s[1].name # s[2].name }

CurrentProviders == { Ollama, format_cloud(<<"openai">>), format_cloud(<<"custom">>) }

(***************************************************************************)
(* The fallback engine as a pure function: a behaviour is one call on a    *)
(* configuration and inputs drawn from the sets above.                     *)
(***************************************************************************)
NoCall == [op |-> "none"]

DecideProvider(context, local_health) ==
    /\ eng = NoCall
    /\ eng' = [op |-> "decide_provider",
               context |-> context,
               local_health |-> local_health,
               decision |-> decide_provider(context, local_health)]
    /\ UNCHANGED <<fcfg, lcfg, selectorVars, cacheVars,
                   monitorVars, success_log, perfVars, probeVars>>

ShouldReturnToLocal(current, local_health, elapsed) ==
    /\ eng = NoCall
    /\ eng' = [op |-> "should_return_to_local",
               current |-> current,
               local_health |-> local_health,
               elapsed |-> elapsed,
               result |-> should_return_to_local(current, local_health, elapsed)]
    /\ UNCHANGED <<fcfg, lcfg, selectorVars, cacheVars,
                   monitorVars, success_log, perfVars, probeVars>>

InitIdleSelector ==
    /\ health_status = EmptyMap
    /\ probes_left = 0
    /\ provider_metrics = EmptyMap
    /\ current_provider = None
    /\ last_fallback_time = None
    /\ now = 0
    /\ sel = NoCall

InitIdleMonitor ==
    /\ probe_log = EmptyMap
    /\ hm = NoCall
    /\ env_status = EmptyMap
    /\ started = FALSE

\* HealthCheckConfig::default
DefaultHealthCheck ==
    [interval_seconds |-> 30, timeout_seconds |-> 5,
     failure_threshold |-> 3, success_threshold |-> 2]

NoLock == [writer |-> None, readers |-> {}]

InitIdleProbe ==
    /\ hccfg = DefaultHealthCheck
    /\ probe_tasks = EmptyMap
    /\ hs_lock = NoLock
    /\ checker_order = <<>>

InitIdlePerf ==
    /\ pm_enabled = TRUE
    /\ pm_metrics = EmptyMap
    /\ pm_measurements = <<>>
    /\ pm_tasks = EmptyMap

InitIdleCache ==
    /\ models = EmptyMap
    /\ total_size_bytes = 0
    /\ max_size_bytes = 0
    /\ cache_call = NoCall

InitEngine ==
    /\ fcfg \in DecideConfigs \cup ReturnConfigs
    /\ lcfg \in LocalConfigs
    /\ eng = NoCall
    /\ InitIdleSelector
    /\ InitIdleCache
    /\ InitIdleMonitor
    /\ success_log = EmptyMap
    /\ InitIdlePerf
    /\ InitIdleProbe

NextEngine ==
    \/ \E context \in FallbackContexts, local_health \in Snapshots :
          DecideProvider(context, local_health)
    \/ \E current \in CurrentProviders, local_health \in Snapshots, elapsed \in 0..MaxElapsed :
          ShouldReturnToLocal(current, local_health, elapsed)

SpecEngine == InitEngine /\ [][NextEngine]_vars

(***************************************************************************)
(* The calls of the health monitor that take &self: force_check,           *)
(* force_check_all (refresh_health of the selector) and start.  Each call  *)
(* is a task that stands at one await point at a time: check_health(),     *)
(* health_status.read() and health_status.write(); hs_lock is the RwLock   *)
(* around health_status, and calls of different tasks interleave at the    *)
(* await points.                                                           *)
(***************************************************************************)
ProbeTaskIds == {"t1", "t2"}
Caller == "t1"
IdleTask == [pc |-> "idle"]

\* no call that borrows the monitor is in flight
AllIdle == \A t \in DOMAIN probe_tasks : probe_tasks[t] = IdleTask

\* the iteration orders a HashMap with the keys of checkers can have
CheckerOrders ==
    LET n == Cardinality(checkers)
    IN  { f \in [1..n -> checkers] : \A i, j \in 1..n : i # j => f[i] # f[j] }

probeFrame == <<fcfg, lcfg, eng, provider_metrics, current_provider,
                last_fallback_time, now, cacheVars, env_status,
                success_log, perfVars, hccfg, checker_order>>
callFrame == <<sel, probe_log, hm, started>>

\* the locals of a call that is about to await check_health() of provider_name;
\* todo are the providers the loop of the call still has to visit
NewTask(op, provider_name, todo) ==
    [pc |-> "probing", op |-> op, provider_name |-> provider_name, todo |-> todo,
     outcome |-> None, info |-> None, outcomes |-> EmptyMap, results |-> EmptyMap]

FcBeginHoldingRead(t, provider_name) ==
    /\ probe_tasks[t] = IdleTask
    /\ provider_name \in checkers
    /\ probes_left >= 1
    /\ hs_lock.writer = None
    /\ probes_left' = probes_left - 1
    /\ hs_lock' = [hs_lock EXCEPT !.readers = @ \cup {t}]
    /\ probe_tasks' = [probe_tasks EXCEPT
                          ![t] = NewTask("force_check", provider_name, <<>>)]
    /\ UNCHANGED <<probeFrame, callFrame, health_status>>

\* force_check: the checker is found and check_health() is awaited
FcBegin(t, provider_name) ==
    /\ probe_tasks[t] = IdleTask
    /\ provider_name \in checkers
    /\ probes_left >= 1
    /\ probes_left' = probes_left - 1
    /\ probe_tasks' = [probe_tasks EXCEPT
                          ![t] = NewTask("force_check", provider_name, <<>>)]
    /\ UNCHANGED <<probeFrame, callFrame, health_status, hs_lock>>

\* force_check of a provider without a checker: the error is returned at once
FcNoChecker(t, provider_name) ==
    /\ probe_tasks[t] = IdleTask
    /\ provider_name \notin checkers
    /\ hm' = [op |-> "force_check", provider_name |-> provider_name,
              ok |-> FALSE, status |-> None]
    /\ UNCHANGED <<probeFrame, sel, probe_log, started, health_status,
                   probes_left, probe_tasks, hs_lock>>

\* force_check_all, refresh_health and perform_initial_checks of start: the loop
\* over the checkers begins, and check_health() of the first one is awaited
BeginAll(t, op) ==
    /\ probe_tasks[t] = IdleTask
    /\ checker_order # <<>>
    /\ probes_left >= Len(checker_order)
    /\ probes_left' = probes_left - Len(checker_order)
    /\ probe_tasks' = [probe_tasks EXCEPT
                          ![t] = NewTask(op, Head(checker_order), Tail(checker_order))]
    /\ UNCHANGED <<probeFrame, callFrame, health_status, hs_lock>>

ForceCheckAllBegin(t) == BeginAll(t, "force_check_all")
RefreshHealthBegin(t) == BeginAll(t, "refresh_health")
StartBegin(t) == BeginAll(t, "start")

FcProbeDonePropagates(t, outcome) ==
    /\ probe_tasks[t].pc = "probing"
    /\ IF outcome = "Err"
       THEN /\ probe_tasks' = [probe_tasks EXCEPT ![t] = IdleTask]
            /\ hm' = [op |-> probe_tasks[t].op,
                      provider_name |-> probe_tasks[t].provider_name,
                      outcome |-> outcome, ok |-> FALSE, status |-> None,
                      outcomes |-> (probe_tasks[t].provider_name :> outcome)
                                      @@ probe_tasks[t].outcomes,
                      results |-> probe_tasks[t].results]
       ELSE /\ probe_tasks' = [probe_tasks EXCEPT
                                 ![t].pc = "read_wait",
                                 ![t].outcome = Some(outcome),
                                 ![t].outcomes =
                                     (probe_tasks[t].provider_name :> outcome) @@ @]
            /\ hm' = hm
    /\ UNCHANGED <<probeFrame, sel, probe_log, started, health_status,
                   probes_left, hs_lock>>

\* check_health() returns, with a status or with an error: the task goes on
\* to self.health_status.read().await
FcProbeDone(t, outcome) ==
    /\ probe_tasks[t].pc = "probing"
    /\ probe_tasks' = [probe_tasks EXCEPT
                          ![t].pc = "read_wait",
                          ![t].outcome = Some(outcome),
                          ![t].outcomes =
                              (probe_tasks[t].provider_name :> outcome) @@ @]
    /\ UNCHANGED <<probeFrame, callFrame, health_status, probes_left, hs_lock>>

\* the read lock is granted when no writer holds the lock
FcReadLock(t) ==
    /\ probe_tasks[t].pc = "read_wait"
    /\ hs_lock.writer = None
    /\ hs_lock' = [hs_lock EXCEPT !.readers = @ \cup {t}]
    /\ probe_tasks' = [probe_tasks EXCEPT ![t].pc = "reading"]
    /\ UNCHANGED <<probeFrame, callFrame, health_status, probes_left>>

\* current_info is cloned, the read guard is dropped, update_health_info builds
\* info, and the task goes on to self.health_status.write().await
FcReadUnlock(t) ==
    /\ probe_tasks[t].pc = "reading"
    /\ hs_lock' = [hs_lock EXCEPT !.readers = @ \ {t}]
    /\ probe_tasks' = [probe_tasks EXCEPT
                          ![t].pc = "write_wait",
                          ![t].info =
                              Some(check_provider_health(health_status,
                                       probe_tasks[t].provider_name,
                                       Unwrap(probe_tasks[t].outcome)))]
    /\ UNCHANGED <<probeFrame, callFrame, health_status, probes_left>>

\* the write lock is granted when nobody holds the lock
FcWriteLock(t) ==
    /\ probe_tasks[t].pc = "write_wait"
    /\ hs_lock = NoLock
    /\ hs_lock' = [hs_lock EXCEPT !.writer = Some(t)]
    /\ probe_tasks' = [probe_tasks EXCEPT ![t].pc = "writing"]
    /\ UNCHANGED <<probeFrame, callFrame, health_status, probes_left>>

\* what the caller gets when the call of task returns with results
Returned(task, results) ==
    CASE task.op = "force_check" ->
             [op |-> "force_check", provider_name |-> task.provider_name,
              outcome |-> Unwrap(task.outcome), ok |-> TRUE,
              status |-> Some(results[task.provider_name])]
      [] task.op = "force_check_all" ->
             [op |-> "force_check_all", outcomes |-> task.outcomes, ok |-> TRUE,
              results |-> results]
      [] task.op = "refresh_health" -> [op |-> "refresh_health"]
      [] task.op = "start" ->
             [op |-> "start", outcomes |-> task.outcomes, ok |-> TRUE]

\* health_status.insert(provider_name, info), and the write guard is dropped;
\* then the loop of the call awaits check_health() of its next provider, or
\* the call returns (start_provider_monitoring only logs)
FcWriteUnlock(t) ==
    LET task == probe_tasks[t]
        p == task.provider_name
        info == Unwrap(task.info)
        results == (p :> info.status) @@ task.results
    IN  /\ task.pc = "writing"
        /\ health_status' =
               [q \in DOMAIN health_status \cup {p} |->
                   IF q = p THEN info ELSE health_status[q]]
        /\ hs_lock' = [hs_lock EXCEPT !.writer = None]
        /\ probe_log' = log_probes(probe_log, (p :> Unwrap(task.outcome)))
        /\ IF task.todo # <<>>
           THEN /\ probe_tasks' =
                       [probe_tasks EXCEPT
                           ![t] = [task EXCEPT !.pc = "probing",
                                               !.provider_name = Head(task.todo),
                                               !.todo = Tail(task.todo),
                                               !.outcome = None,
                                               !.info = None,
                                               !.results = results]]
                /\ UNCHANGED <<sel, hm, started>>
           ELSE /\ probe_tasks' = [probe_tasks EXCEPT ![t] = IdleTask]
                /\ started' = (started \/ task.op = "start")
                /\ IF task.op = "refresh_health"
                   THEN sel' = Returned(task, results) /\ hm' = hm
                   ELSE hm' = Returned(task, results) /\ sel' = sel
        /\ UNCHANGED <<probeFrame, probes_left>>

\* the steps a call in flight takes once its probe has returned
LockSteps(t) ==
    \/ FcReadLock(t)
    \/ FcReadUnlock(t)
    \/ FcWriteLock(t)
    \/ FcWriteUnlock(t)

\* get_provider_health (is_provider_usable, is_provider_healthy): the read lock
\* is taken
QueryReadLock(t, provider_name) ==
    /\ probe_tasks[t] = IdleTask
    /\ hs_lock.writer = None
    /\ hs_lock' = [hs_lock EXCEPT !.readers = @ \cup {t}]
    /\ probe_tasks' = [probe_tasks EXCEPT
                          ![t] = [pc |-> "querying", provider_name |-> provider_name]]
    /\ UNCHANGED <<probeFrame, callFrame, health_status, probes_left>>

\* the status is read and the read guard is dropped
QueryReadUnlock(t) ==
    /\ probe_tasks[t].pc = "querying"
    /\ hs_lock' = [hs_lock EXCEPT !.readers = @ \ {t}]
    /\ probe_tasks' = [probe_tasks EXCEPT ![t] = IdleTask]
    /\ hm' = [op |-> "is_provider_usable",
              provider_name |-> probe_tasks[t].provider_name,
              result |-> is_provider_usable(health_status,
                                            probe_tasks[t].provider_name)]
    /\ UNCHANGED <<probeFrame, sel, probe_log, started, health_status, probes_left>>

\* get_providers_by_health: the read lock is taken, and the entries are
\* collected and sorted before the guard is dropped
GetProvidersByHealth(providers) ==
    /\ hs_lock.writer = None
    /\ hm' = [op |-> "get_providers_by_health",
              result |-> sort_by_status_priority(providers)]
    /\ UNCHANGED <<probeFrame, sel, probe_log, started, health_status,
                   probes_left, probe_tasks, hs_lock>>

\* HealthMonitor::new has built the checkers, and no call is in flight
InitTasks(ids) ==
    /\ probe_tasks = [t \in ids |-> IdleTask]
    /\ hs_lock = NoLock
    /\ checker_order \in CheckerOrders

(***************************************************************************)
(* The provider selector: initialize, refresh_health and select_provider   *)
(* called in any order while the clock advances.                           *)
(***************************************************************************)
SelectorConfigs ==
    { [ShortRecoveryConfig EXCEPT !.strategy = s] : s \in FallbackStrategy }
    \cup { [ShortRecoveryConfig EXCEPT !.auto_return_to_local = FALSE],
           [ShortRecoveryConfig EXCEPT !.cloud_providers = << <<"custom">> >>],
           [ShortRecoveryConfig EXCEPT !.strategy = "Immediate", !.cloud_providers = <<>>] }

SelectionContexts ==
    [model_id : { <<"llama3.2", ":latest">>, <<"gpt-4">> },
     requires_tools : BOOLEAN,
     consecutive_failures : {0, MaxFailures}]

RECURSIVE SumRequests(_, _)
SumRequests(metrics, keys) ==
    IF keys = {} THEN 0
    ELSE LET k == CHOOSE x \in keys : TRUE
         IN  metrics[k].total_requests + SumRequests(metrics, keys \ {k})

\* initialize takes &mut self: no other call of the selector is in flight, and
\* the probes of start follow one another with nothing in between
Initialize(outcomes) ==
    /\ AllIdle
    /\ probes_left >= Cardinality(checkers)
    /\ probes_left' = probes_left - Cardinality(checkers)
    /\ health_status' = start(health_status, outcomes)
    /\ probe_log' = log_probes(probe_log, outcomes)
    /\ started' = TRUE
    /\ provider_metrics' = initialize_metrics(provider_metrics)
    /\ success_log' = [p \in DOMAIN lcfg \cup CloudKeys |-> <<>>]
                           @@ success_log
    /\ sel' = [op |-> "initialize"]
    /\ UNCHANGED <<fcfg, lcfg, eng, current_provider, last_fallback_time, now, cacheVars,
                   hm, env_status, perfVars, probeVars>>

\* select_provider takes &mut self
SelectProvider(context, local_health) ==
    LET r == select_provider(context, local_health)
    IN  /\ AllIdle
        /\ SumRequests(r.provider_metrics, DOMAIN r.provider_metrics) <= MaxRequests
        /\ current_provider' = r.current_provider
        /\ last_fallback_time' = r.last_fallback_time
        /\ provider_metrics' = r.provider_metrics
        /\ sel' = [op |-> "select_provider", context |-> context,
                   result |-> r.result, returned |-> r.returned]
        /\ UNCHANGED <<fcfg, lcfg, eng, health_status, probes_left, now, cacheVars,
                   monitorVars, success_log, perfVars, probeVars>>

Tick ==
    /\ now < MaxTime
    /\ now' = now + 1
    /\ sel' = [op |-> "tick"]
    /\ UNCHANGED <<fcfg, lcfg, eng, health_status, probes_left, provider_metrics,
                   current_provider, last_fallback_time, cacheVars,
                   monitorVars, success_log, perfVars, probeVars>>

InitSelector ==
    /\ fcfg \in SelectorConfigs
    /\ lcfg \in {DefaultOllama, TwoProviders}
    /\ eng = NoCall
    /\ health_status = EmptyMap
    /\ probes_left = MaxProbes
    /\ provider_metrics = EmptyMap
    /\ current_provider = None
    /\ last_fallback_time = None
    /\ now = 0
    /\ sel = NoCall
    /\ InitIdleCache
    /\ InitIdleMonitor
    /\ success_log = EmptyMap
    /\ InitIdlePerf
    /\ hccfg = DefaultHealthCheck
    /\ InitTasks({Caller})

\* refresh_health called by one caller, step by step; the checkers answer
\* with a status (the selector reads nothing else of a health record)
RefreshSteps ==
    \/ \E outcome \in ProviderHealthStatus : FcProbeDone(Caller, outcome)
    \/ LockSteps(Caller)

RefreshHealth ==
    \/ RefreshHealthBegin(Caller)
    \/ RefreshSteps

NextSelector ==
    \/ \E outcomes \in [checkers -> ProviderHealthStatus] : Initialize(outcomes)
    \/ RefreshHealth
    \/ AllIdle /\ \E context \in SelectionContexts :
          \E local_health \in get_providers_by_health(health_status) :
              SelectProvider(context, local_health)
    \/ Tick

SpecSelector == InitSelector /\ [][NextSelector]_vars

(***************************************************************************)
(* Construction: ProviderSelector::new is given any configuration, among    *)
(* them those the validate functions of the configuration reject, and the   *)
(* selector it returns is initialized and used.                             *)
(***************************************************************************)
\* FallbackConfig::validate returns Ok (the other checks only warn)
fallback_config_validate(config) == config.decision_timeout_seconds # 0

\* HealthCheckConfig::validate returns Ok
health_check_config_validate(config) ==
    /\ config.interval_seconds # 0
    /\ config.timeout_seconds # 0
    /\ config.failure_threshold # 0
    /\ config.success_threshold # 0

\* ProviderSelector::new: FallbackEngine::new and HealthMonitor::new store the
\* configurations as they are given, and the result is Ok
provider_selector_new(local_config, fallback_config, health_check) ==
    [ok |-> TRUE, fallback_config |-> fallback_config,
     local_config |-> local_config, health_check |-> health_check]

Unbuilt == [op |-> "unbuilt"]
DecisionTimeouts == {0, 10}
HealthCheckConfigs ==
    [interval_seconds : {0, 30}, timeout_seconds : {0, 5},
     failure_threshold : {0, 3}, success_threshold : {0, 2}]

New ==
    LET r == provider_selector_new(lcfg, fcfg, hccfg)
    IN  /\ sel = Unbuilt
        /\ sel' = [op |-> "new", ok |-> r.ok]
        /\ checker_order' \in CheckerOrders
        /\ UNCHANGED <<fcfg, lcfg, eng, health_status, probes_left, provider_metrics,
                       current_provider, last_fallback_time, now, cacheVars,
                       monitorVars, success_log, perfVars, hccfg, probe_tasks, hs_lock>>

Built == sel # Unbuilt /\ (sel.op = "new" => sel.ok)

InitConstruct ==
    /\ \E t \in DecisionTimeouts :
           fcfg = [DefaultFallbackConfig EXCEPT !.decision_timeout_seconds = t]
    /\ lcfg = DefaultOllama
    /\ eng = NoCall
    /\ health_status = EmptyMap
    /\ probes_left = MaxProbes
    /\ provider_metrics = EmptyMap
    /\ current_provider = None
    /\ last_fallback_time = None
    /\ now = 0
    /\ sel = Unbuilt
    /\ InitIdleCache
    /\ InitIdleMonitor
    /\ success_log = EmptyMap
    /\ InitIdlePerf
    /\ hccfg \in HealthCheckConfigs
    /\ probe_tasks = EmptyMap
    /\ hs_lock = NoLock
    /\ checker_order = <<>>

NextConstruct ==
    \/ New
    \/ Built /\ \E outcomes \in [checkers -> ProbeOutcomes] : Initialize(outcomes)
    \/ Built /\ \E context \in SelectionContexts :
          \E local_health \in get_providers_by_health(health_status) :
              SelectProvider(context, local_health)

SpecConstruct == InitConstruct /\ [][NextConstruct]_vars

(***************************************************************************)
(* The selector called again and again, for ever.  Instants are kept       *)
(* relative: select_provider only reads now - last_fallback_time and       *)
(* compares it with local_recovery_delay_seconds, so the clock is kept as   *)
(* the time since the last fallback and stops counting at the delay.        *)
(* initialize() is not called (its probes are those of refresh_health), so  *)
(* that provider_metrics has no entry whose total_requests grows for ever.  *)
(***************************************************************************)
\* time passes between two calls
Elapse ==
    /\ now' = IF now < fcfg.local_recovery_delay_seconds THEN now + 1 ELSE now
    /\ sel' = [op |-> "tick"]
    /\ UNCHANGED <<fcfg, lcfg, eng, health_status, probes_left, provider_metrics,
                   current_provider, last_fallback_time, cacheVars,
                   monitorVars, success_log, perfVars, probeVars>>

\* select_provider, with the instants rebased on the last fallback
SelectProviderAgain(context, local_health) ==
    LET r == select_provider(context, local_health)
        since == IF IsSome(r.last_fallback_time)
                 THEN now - Unwrap(r.last_fallback_time) ELSE now
    IN  /\ AllIdle
        /\ current_provider' = r.current_provider
        /\ last_fallback_time' =
               IF IsSome(r.last_fallback_time) THEN Some(0) ELSE None
        /\ now' = since
        /\ provider_metrics' = r.provider_metrics
        /\ sel' = [op |-> "select_provider", context |-> context,
                   result |-> r.result, returned |-> r.returned]
        /\ UNCHANGED <<fcfg, lcfg, eng, health_status, probes_left, cacheVars,
                   monitorVars, success_log, perfVars, probeVars>>

SelectAgain ==
    AllIdle /\ \E context \in SelectionContexts :
        \E local_health \in get_providers_by_health(health_status) :
            SelectProviderAgain(context, local_health)

NextReturn ==
    \/ RefreshHealth
    \/ SelectAgain
    \/ Elapse

\* the caller keeps calling select_provider, time keeps passing, and the
\* awaits of a refresh_health call complete
SpecReturn ==
    /\ InitSelector
    /\ [][NextReturn]_vars
    /\ WF_vars(SelectAgain)
    /\ WF_vars(Elapse)
    /\ WF_vars(RefreshSteps)

(***************************************************************************)
(* The model cache: optimize_model_loading (with enable_model_caching set, *)
(* the default) called with any provider and model while the clock         *)
(* advances.                                                               *)
(***************************************************************************)
CacheSizesMb == {0, 50, 100, 150, 250, 300}
CacheProviders == {Ollama, LmStudio}
CacheModelNames == { <<"llama3.2">>, <<"codellama">> }

OptimizeModelLoading(provider_name, model_name, order) ==
    LET key == cache_key(provider_name, model_name)
        r == apply_model_caching(key, order)
    IN  /\ \A k \in DOMAIN r.models : r.models[k].access_count <= MaxAccess
        /\ models' = r.models
        /\ total_size_bytes' = r.total_size_bytes
        /\ cache_call' = [op |-> "apply_model_caching", key |-> key, result |-> r.result,
                          evicted |-> [k \in DOMAIN models \ DOMAIN r.models |->
                                          models[k]]]
        /\ UNCHANGED <<fcfg, lcfg, eng, max_size_bytes, selectorVars,
                   monitorVars, success_log, perfVars, probeVars>>

CacheTick ==
    /\ now < MaxCacheTime
    /\ now' = now + 1
    /\ cache_call' = [op |-> "tick"]
    /\ UNCHANGED <<fcfg, lcfg, eng, health_status, probes_left, provider_metrics,
                   current_provider, last_fallback_time, sel,
                   models, total_size_bytes, max_size_bytes,
                   monitorVars, success_log, perfVars, probeVars>>

InitCache ==
    /\ fcfg = DefaultFallbackConfig
    /\ lcfg = DefaultOllama
    /\ eng = NoCall
    /\ InitIdleSelector
    /\ models = EmptyMap
    /\ total_size_bytes = 0
    /\ max_size_bytes \in { cache_capacity(mb) : mb \in CacheSizesMb }
    /\ cache_call = NoCall
    /\ InitIdleMonitor
    /\ success_log = EmptyMap
    /\ InitIdlePerf
    /\ InitIdleProbe

NextCache ==
    \/ \E provider_name \in CacheProviders, model_name \in CacheModelNames :
          \E order \in LruOrders(models) :
              OptimizeModelLoading(provider_name, model_name, order)
    \/ CacheTick

SpecCache == InitCache /\ [][NextCache]_vars

(***************************************************************************)
(* The ModelCache used directly, as the unit test of the module does:      *)
(* entries of 100 MB are cached and evict_lru_models is called with any    *)
(* amount of space.                                                        *)
(***************************************************************************)
EvictCacheSizesMb == {200}
EvictSpaceMb == {50, 100, 150, 200, 250}

EvictLruModels(space_needed, order) ==
    LET r == evict_lru_models(models, total_size_bytes, order, space_needed)
    IN  /\ models' = r.models
        /\ total_size_bytes' = r.total_size_bytes
        /\ cache_call' = [op |-> "evict_lru_models", space_needed |-> space_needed,
                          ok |-> r.ok,
                          evicted |-> [k \in DOMAIN models \ DOMAIN r.models |->
                                          models[k]]]
        /\ UNCHANGED <<fcfg, lcfg, eng, max_size_bytes, selectorVars,
                       monitorVars, success_log, perfVars, probeVars>>

InitEvict ==
    /\ fcfg = DefaultFallbackConfig
    /\ lcfg = DefaultOllama
    /\ eng = NoCall
    /\ InitIdleSelector
    /\ models = EmptyMap
    /\ total_size_bytes = 0
    /\ max_size_bytes \in { cache_capacity(mb) : mb \in EvictCacheSizesMb }
    /\ cache_call = NoCall
    /\ InitIdleMonitor
    /\ success_log = EmptyMap
    /\ InitIdlePerf
    /\ InitIdleProbe

NextEvict ==
    \/ \E provider_name \in CacheProviders, model_name \in CacheModelNames :
          \E order \in LruOrders(models) :
              OptimizeModelLoading(provider_name, model_name, order)
    \/ \E mb \in EvictSpaceMb :
          \E order \in LruOrders(models) :
              EvictLruModels(cache_capacity(mb), order)
    \/ CacheTick

SpecEvict == InitEvict /\ [][NextEvict]_vars

(***************************************************************************)
(* The health monitor on its own: start, force_check, force_check_all and  *)
(* the queries, called one after the other. Every probe of a registered    *)
(* provider takes one of probes_left.                                      *)
(***************************************************************************)
LocalAi == <<"localai">>
Unknown == <<"unknown">>

ThreeProviders ==
    (Ollama :> <<>>) @@ (LmStudio :> <<>>) @@ (LocalAi :> <<>>)

\* the names callers ask about: the configured ones and one that is not
QueryNames == {Ollama, LmStudio, LocalAi, Unknown}

InitMonitorIdle ==
    /\ fcfg = DefaultFallbackConfig
    /\ eng = NoCall
    /\ health_status = EmptyMap
    /\ provider_metrics = EmptyMap
    /\ current_provider = None
    /\ last_fallback_time = None
    /\ now = 0
    /\ sel = NoCall
    /\ InitIdleCache
    /\ success_log = EmptyMap
    /\ InitIdlePerf
    /\ hccfg = DefaultHealthCheck
    /\ probe_log = EmptyMap
    /\ hm = NoCall
    /\ started = FALSE

\* the probes of a behaviour: MaxHealthProbes, and at least one pass of start or
\* force_check_all over the checkers; the checkers iterate in any order
InitHealth ==
    /\ lcfg \in {DefaultOllama, TwoProviders, ThreeProviders}
    /\ probes_left = IF Cardinality(checkers) > MaxHealthProbes
                     THEN Cardinality(checkers) ELSE MaxHealthProbes
    /\ env_status = EmptyMap
    /\ InitMonitorIdle
    /\ InitTasks({Caller})

NextHealth ==
    \/ \E t \in {Caller} :
          \/ StartBegin(t)
          \/ \E provider_name \in checkers : FcBegin(t, provider_name)
          \/ \E provider_name \in QueryNames : FcNoChecker(t, provider_name)
          \/ ForceCheckAllBegin(t)
          \/ \E outcome \in ProbeOutcomes : FcProbeDone(t, outcome)
          \/ LockSteps(t)
          \/ \E provider_name \in QueryNames : QueryReadLock(t, provider_name)
          \/ QueryReadUnlock(t)
    \/ \E providers \in iter_health_status(health_status) :
          GetProvidersByHealth(providers)

SpecHealth == InitHealth /\ [][NextHealth]_vars

(***************************************************************************)
(* One provider probed again and again by one caller, each force_check     *)
(* after the one before has returned, past the length of the history       *)
(* window.                                                                 *)
(***************************************************************************)
\* one probe more than the history window holds
MaxHistoryProbes == HistoryCap + 1

InitHistory ==
    /\ lcfg = DefaultOllama
    /\ probes_left = MaxHistoryProbes
    /\ env_status = EmptyMap
    /\ InitMonitorIdle
    /\ InitTasks({Caller})

NextHistory ==
    \/ FcBegin(Caller, Ollama)
    \/ \E outcome \in ProbeOutcomes : FcProbeDone(Caller, outcome)
    \/ LockSteps(Caller)

SpecHistory == InitHistory /\ [][NextHistory]_vars

(***************************************************************************)
(* force_check, force_check_all, start and the queries of the monitor      *)
(* called by concurrent tasks on the same HealthMonitor.                   *)
(***************************************************************************)
MaxTaskProbes == 2
InitProbe ==
    /\ lcfg \in {DefaultOllama, TwoProviders}
    /\ probes_left = MaxTaskProbes
    /\ env_status = EmptyMap
    /\ InitMonitorIdle
    /\ InitTasks(ProbeTaskIds)

NextProbe ==
    \E t \in ProbeTaskIds :
        \/ \E provider_name \in checkers : FcBegin(t, provider_name)
        \/ \E provider_name \in QueryNames : FcNoChecker(t, provider_name)
        \/ ForceCheckAllBegin(t)
        \/ RefreshHealthBegin(t)
        \/ StartBegin(t)
        \/ \E outcome \in ProbeOutcomes : FcProbeDone(t, outcome)
        \/ LockSteps(t)
        \/ \E provider_name \in checkers : QueryReadLock(t, provider_name)
        \/ QueryReadUnlock(t)

SpecProbe == InitProbe /\ [][NextProbe]_vars

(***************************************************************************)
(* The monitor after one call of start, with no other caller: the          *)
(* providers change what their checkers would answer, and the only steps   *)
(* of the monitor are those of start.  A probe answers what the provider   *)
(* answers at the time of the probe.                                       *)
(***************************************************************************)
\* the environment: provider_name starts to answer outcome
EnvChange(provider_name, outcome) ==
    /\ env_status[provider_name] # outcome
    /\ env_status' = [env_status EXCEPT ![provider_name] = outcome]
    /\ UNCHANGED <<fcfg, lcfg, eng, selectorVars, cacheVars,
                   probe_log, hm, started, success_log, perfVars, probeVars>>

\* the steps of the start call
StartSteps ==
    \/ StartBegin(Caller)
    \/ /\ probe_tasks[Caller].pc = "probing"
       /\ FcProbeDone(Caller, env_status[probe_tasks[Caller].provider_name])
    \/ LockSteps(Caller)

InitMonitor ==
    /\ lcfg \in {DefaultOllama, TwoProviders}
    /\ probes_left = Cardinality(checkers)
    /\ env_status \in [checkers -> ProbeOutcomes]
    /\ InitMonitorIdle
    /\ InitTasks({Caller})

NextMonitor ==
    \/ StartSteps
    \/ \E provider_name \in checkers, outcome \in ProbeOutcomes :
          EnvChange(provider_name, outcome)

\* the caller does call start and its awaits complete; nothing else is
\* scheduled by the code
SpecMonitor == InitMonitor /\ [][NextMonitor]_vars /\ WF_vars(StartSteps)

(***************************************************************************)
(* The selector's metrics: initialize and select_provider on the default   *)
(* configuration, with the outcome of requests reported through            *)
(* record_success and record_failure.                                      *)
(***************************************************************************)
LatenciesMs == {100, 150, 200}
RecordNames == {Ollama, format_cloud(<<"openai">>), Unknown}
MetricsContexts ==
    [model_id : { <<"llama3.2", ":latest">>, <<"gpt-4">> },
     requires_tools : {FALSE},
     consecutive_failures : {0}]

RECURSIVE SumLen(_, _)
SumLen(log, keys) ==
    IF keys = {} THEN 0
    ELSE LET k == CHOOSE x \in keys : TRUE
         IN  Len(log[k]) + SumLen(log, keys \ {k})

RecordSuccess(provider_name, response_time) ==
    LET after == record_success(provider_metrics, provider_name, response_time)
    IN  /\ SumLen(success_log, DOMAIN success_log) < MaxRecords
        /\ provider_name \in DOMAIN after =>
               after[provider_name].avg_response_time # HugeMs
        /\ provider_metrics' = after
        /\ success_log' =
               IF provider_name \in DOMAIN provider_metrics
               THEN [success_log EXCEPT ![provider_name] = Append(@, response_time)]
               ELSE success_log
        /\ sel' = [op |-> "record_success", provider_name |-> provider_name,
                   response_time |-> response_time]
        /\ UNCHANGED <<fcfg, lcfg, eng, health_status, probes_left, current_provider,
                       last_fallback_time, now, cacheVars, monitorVars, perfVars, probeVars>>

RecordFailureDowngrades(provider_name, error) ==
    /\ provider_metrics' = record_failure(provider_metrics, provider_name, error)
    /\ health_status' =
           [p \in DOMAIN health_status |->
               IF p = provider_name
               THEN [health_status[p] EXCEPT !.status = "Unhealthy",
                                             !.consecutive_failures = @ + 1,
                                             !.consecutive_successes = 0]
               ELSE health_status[p]]
    /\ sel' = [op |-> "record_failure", provider_name |-> provider_name,
               error |-> error]
    /\ UNCHANGED <<fcfg, lcfg, eng, probes_left, current_provider,
                   last_fallback_time, now, cacheVars, monitorVars, success_log,
                   perfVars, probeVars>>

RecordFailure(provider_name, error) ==
    /\ provider_metrics' = record_failure(provider_metrics, provider_name, error)
    /\ sel' = [op |-> "record_failure", provider_name |-> provider_name,
               error |-> error]
    /\ UNCHANGED <<fcfg, lcfg, eng, health_status, probes_left, current_provider,
                   last_fallback_time, now, cacheVars, monitorVars, success_log,
                   perfVars, probeVars>>

InitMetrics ==
    /\ fcfg = DefaultFallbackConfig
    /\ lcfg = DefaultOllama
    /\ eng = NoCall
    /\ health_status = EmptyMap
    /\ probes_left = 1
    /\ provider_metrics = EmptyMap
    /\ current_provider = None
    /\ last_fallback_time = None
    /\ now = 0
    /\ sel = NoCall
    /\ InitIdleCache
    /\ InitIdleMonitor
    /\ success_log = EmptyMap
    /\ InitIdlePerf
    /\ hccfg = DefaultHealthCheck
    /\ InitTasks({})

NextMetrics ==
    \/ \E outcomes \in [checkers -> {"Healthy", "Unhealthy"}] : Initialize(outcomes)
    \/ \E context \in MetricsContexts :
          \E local_health \in get_providers_by_health(health_status) :
              SelectProvider(context, local_health)
    \/ \E provider_name \in RecordNames, response_time \in LatenciesMs :
          RecordSuccess(provider_name, response_time)
    \/ \E provider_name \in RecordNames : RecordFailure(provider_name, "timeout")

SpecMetrics == InitMetrics /\ [][NextMetrics]_vars

(***************************************************************************)
(* The performance monitor: record_measurement called by concurrent tasks. *)
(* A call takes the write lock of measurements, releases it, and then      *)
(* takes the write lock of metrics; calls of other tasks run in between.   *)
(***************************************************************************)
Tasks == {"t1", "t2"}
DurationsNs == {1, 2}
Measurements ==
    [provider_name : {Ollama, LmStudio}, success : BOOLEAN, duration : DurationsNs]

RECURSIVE SumTotal(_, _)
SumTotal(metrics, keys) ==
    IF keys = {} THEN 0
    ELSE LET k == CHOOSE x \in keys : TRUE
         IN  metrics[k].total_requests + SumTotal(metrics, keys \ {k})

\* record_measurement up to the release of the measurements lock; with
\* monitoring disabled the call returns at once
RecordMeasurementPush(task, measurement) ==
    /\ task \notin DOMAIN pm_tasks
    /\ SumTotal(pm_metrics, DOMAIN pm_metrics) + Cardinality(DOMAIN pm_tasks)
           < MaxMeasured
    /\ IF pm_enabled
       THEN /\ pm_measurements' = push_measurement(pm_measurements, measurement)
            /\ pm_tasks' = (task :> measurement) @@ pm_tasks
       ELSE UNCHANGED <<pm_measurements, pm_tasks, probeVars>>
    /\ UNCHANGED <<fcfg, lcfg, eng, selectorVars, cacheVars, monitorVars,
                   success_log, pm_enabled, pm_metrics, probeVars>>

\* the rest of record_measurement: update_provider_metrics
RecordMeasurementUpdate(task) ==
    /\ task \in DOMAIN pm_tasks
    /\ pm_metrics' = update_provider_metrics(pm_metrics, pm_tasks[task])
    /\ pm_tasks' = [t \in DOMAIN pm_tasks \ {task} |-> pm_tasks[t]]
    /\ UNCHANGED <<fcfg, lcfg, eng, selectorVars, cacheVars, monitorVars,
                   success_log, pm_enabled, pm_measurements, probeVars>>

InitPerf ==
    /\ fcfg = DefaultFallbackConfig
    /\ lcfg = DefaultOllama
    /\ eng = NoCall
    /\ InitIdleSelector
    /\ InitIdleCache
    /\ InitIdleMonitor
    /\ success_log = EmptyMap
    /\ pm_enabled \in BOOLEAN
    /\ pm_metrics = EmptyMap
    /\ pm_measurements = <<>>
    /\ pm_tasks = EmptyMap
    /\ InitIdleProbe

NextPerf ==
    \/ \E task \in Tasks, measurement \in Measurements :
          RecordMeasurementPush(task, measurement)
    \/ \E task \in Tasks : RecordMeasurementUpdate(task)

SpecPerf == InitPerf /\ [][NextPerf]_vars

(***************************************************************************)
(* Claims about the fallback engine (SpecEngine).                          *)
(***************************************************************************)
Decided == eng.op = "decide_provider"

\* some entry of the snapshot is usable and supports the requested model
HasUsableMatch(context, local_health) ==
    \E i \in 1..Len(local_health) :
        /\ local_health[i].status \in {"Healthy", "Degraded"}
        /\ provider_supports_model(local_health[i].name, context.model_id)

\* some entry of the snapshot is Healthy and supports the requested model
HasHealthyMatch(context, local_health) ==
    \E i \in 1..Len(local_health) :
        /\ local_health[i].status = "Healthy"
        /\ provider_supports_model(local_health[i].name, context.model_id)

\* C3: under Graceful with a usable local provider matching the model,
\* consecutive_failures < max_retries gives UseLocal, and
\* consecutive_failures >= max_retries never gives UseLocal and gives UseCloud
\* whenever a cloud provider is configured.
C3_GracefulRetryBoundary ==
    (Decided /\ fcfg.strategy = "Graceful"
             /\ HasUsableMatch(eng.context, eng.local_health)) =>
        /\ (eng.context.consecutive_failures < fcfg.max_retries)
              => eng.decision.kind = "UseLocal"
        /\ (eng.context.consecutive_failures >= fcfg.max_retries)
              => /\ eng.decision.kind # "UseLocal"
                 /\ (fcfg.cloud_providers # <<>> => eng.decision.kind = "UseCloud")

C3_Witness ==
    /\ Decided /\ fcfg.strategy = "Graceful"
    /\ HasUsableMatch(eng.context, eng.local_health)
    /\ fcfg.max_retries > 0
    /\ eng.context.consecutive_failures = fcfg.max_retries
    /\ eng.decision.kind = "UseCloud"

\* C4 as stated: under None, Manual and Immediate a usable (Healthy or
\* Degraded) local provider matching the model yields UseLocal.
C4_UsableMatchGivesLocal ==
    (Decided /\ fcfg.strategy \in {"None", "Manual", "Immediate"}
             /\ HasUsableMatch(eng.context, eng.local_health)) =>
        eng.decision.kind = "UseLocal"

\* C4 amended: under None, Manual and Immediate the result is UseLocal exactly
\* when the snapshot holds a Healthy provider matching the model, and it names
\* the first such entry; a matching provider that is only Degraded is not
\* selected (None: NoProvider, Manual: RequireManual, Immediate: UseCloud or
\* NoProvider).
C4_HealthyMatchGivesLocal ==
    (Decided /\ fcfg.strategy \in {"None", "Manual", "Immediate"}) =>
        LET lh == eng.local_health
            d == eng.decision
        IN  /\ HasHealthyMatch(eng.context, lh) <=> d.kind = "UseLocal"
            /\ d.kind = "UseLocal" =>
                  \E i \in 1..Len(lh) :
                      /\ lh[i].name = d.provider_name
                      /\ lh[i].status = "Healthy"
                      /\ provider_supports_model(lh[i].name, eng.context.model_id)
                      /\ \A j \in 1..(i - 1) :
                            ~(lh[j].status = "Healthy"
                              /\ provider_supports_model(lh[j].name, eng.context.model_id))
            /\ ~HasHealthyMatch(eng.context, lh) =>
                  CASE fcfg.strategy = "None" -> d.kind = "NoProvider"
                    [] fcfg.strategy = "Manual" -> d.kind = "RequireManual"
                    [] fcfg.strategy = "Immediate" -> d.kind \in {"UseCloud", "NoProvider"}

C4_Witness ==
    /\ Decided /\ fcfg.strategy = "Immediate"
    /\ HasUsableMatch(eng.context, eng.local_health)
    /\ ~HasHealthyMatch(eng.context, eng.local_health)
    /\ eng.decision.kind = "UseCloud"

\* C5: should_return_to_local returns a provider exactly when auto-return is
\* enabled, current is a cloud provider, elapsed >= local_recovery_delay and
\* the snapshot holds a provider that is exactly Healthy; the provider
\* returned is the first Healthy entry of the snapshot.
C5_ReturnToLocalIff ==
    (eng.op = "should_return_to_local") =>
        LET lh == eng.local_health
        IN  /\ IsSome(eng.result) <=>
                  /\ fcfg.auto_return_to_local
                  /\ Len(eng.current) > 0 /\ eng.current[1] = "cloud:"
                  /\ eng.elapsed >= fcfg.local_recovery_delay_seconds
                  /\ \E i \in 1..Len(lh) : lh[i].status = "Healthy"
            /\ IsSome(eng.result) =>
                  \E i \in 1..Len(lh) :
                      /\ lh[i].name = Unwrap(eng.result)
                      /\ lh[i].status = "Healthy"
                      /\ \A j \in 1..(i - 1) : lh[j].status # "Healthy"

C5_Witness ==
    /\ eng.op = "should_return_to_local"
    /\ fcfg.local_recovery_delay_seconds > 0
    /\ eng.elapsed = fcfg.local_recovery_delay_seconds
    /\ Len(eng.local_health) = 2
    /\ eng.local_health[1].status = "Degraded"
    /\ IsSome(eng.result)

KnownToolProviders == { <<"openai">>, <<"anthropic">> }

\* C8 as stated: with requires_tools set, UseCloud never names a provider that
\* is not a known tool-capable one, and Immediate and Graceful return
\* NoProvider when no configured cloud provider qualifies.
C8_CloudRespectsTools ==
    (Decided /\ fcfg.strategy \in {"Immediate", "Graceful"}
             /\ eng.context.requires_tools) =>
        /\ eng.decision.kind = "UseCloud"
              => eng.decision.provider_name \in KnownToolProviders
        /\ (eng.decision.kind # "UseLocal"
            /\ \A i \in 1..Len(fcfg.cloud_providers) :
                  fcfg.cloud_providers[i] \notin KnownToolProviders)
              => eng.decision.kind = "NoProvider"

\* C8 amended: UseCloud names the first configured cloud provider whose
\* features cover the request (a known tool-capable one when requires_tools
\* is set, any when it is not); when no configured provider qualifies it names
\* the first configured cloud provider all the same, and Immediate and
\* Graceful return NoProvider only when no cloud provider is configured.
C8_CloudPrefersTools ==
    (Decided /\ fcfg.strategy \in {"Immediate", "Graceful"}) =>
        LET cp == fcfg.cloud_providers
            d == eng.decision
            Covers(p) == p \in KnownToolProviders \/ ~eng.context.requires_tools
        IN  /\ d.kind = "NoProvider" <=> (d.kind # "UseLocal" /\ cp = <<>>)
            /\ d.kind = "UseCloud" =>
                  IF \E i \in 1..Len(cp) : Covers(cp[i])
                  THEN \E i \in 1..Len(cp) :
                          /\ d.provider_name = cp[i]
                          /\ Covers(cp[i])
                          /\ \A j \in 1..(i - 1) : ~Covers(cp[j])
                  ELSE d.provider_name = cp[1]

C8_Witness ==
    /\ Decided /\ fcfg.strategy \in {"Immediate", "Graceful"}
    /\ eng.context.requires_tools
    /\ eng.decision.kind = "UseCloud"
    /\ eng.decision.provider_name \notin KnownToolProviders

\* C9: under strategy None the result is only ever UseLocal or NoProvider, and
\* a NoProvider result lists every provider of the snapshot, in snapshot
\* order, in attempted_providers.
C9_NoneNeverLeavesLocal ==
    (Decided /\ fcfg.strategy = "None") =>
        LET lh == eng.local_health
            d == eng.decision
        IN  /\ d.kind \in {"UseLocal", "NoProvider"}
            /\ d.kind = "NoProvider" =>
                  /\ Len(d.attempted_providers) = Len(lh)
                  /\ \A i \in 1..Len(lh) : d.attempted_providers[i] = lh[i].name

C9_Witness ==
    /\ Decided /\ fcfg.strategy = "None"
    /\ fcfg.cloud_providers # <<>>
    /\ eng.decision.kind = "NoProvider"
    /\ Len(eng.decision.attempted_providers) = 2

\* C10: under strategy Manual the result is never UseCloud or NoProvider;
\* when no local provider qualifies it is RequireManual, whose
\* available_options are the Degraded providers of the snapshot (as
\* "local:<name>", in snapshot order) followed by every configured cloud
\* provider (as "cloud:<name>", in configuration order).
C10_ManualNeverSelects ==
    (Decided /\ fcfg.strategy = "Manual") =>
        LET lh == eng.local_health
            d == eng.decision
            cp == fcfg.cloud_providers
            degraded == SelectSeq(lh, LAMBDA e : e.status = "Degraded")
        IN  /\ d.kind \in {"UseLocal", "RequireManual"}
            /\ ~HasHealthyMatch(eng.context, lh) =>
                  /\ d.kind = "RequireManual"
                  /\ Len(d.available_options) = Len(degraded) + Len(cp)
                  /\ \A i \in 1..Len(degraded) :
                        d.available_options[i] = <<"local:">> \o degraded[i].name
                  /\ \A i \in 1..Len(cp) :
                        d.available_options[Len(degraded) + i] = <<"cloud:">> \o cp[i]

C10_Witness ==
    /\ Decided /\ fcfg.strategy = "Manual"
    /\ eng.decision.kind = "RequireManual"
    /\ Len(fcfg.cloud_providers) = 2
    /\ Len(eng.decision.available_options) = 3
    /\ HasUsableMatch(eng.context, eng.local_health)

(***************************************************************************)
(* Claims about the provider selector (SpecSelector). A step that moves no *)
(* task of the health monitor and whose post-state has                     *)
(* sel.op = "select_provider" is a select_provider call.                   *)
(***************************************************************************)
SelectCall == sel'.op = "select_provider" /\ probe_tasks' = probe_tasks

CloudActive ==
    /\ IsSome(current_provider)
    /\ Len(Unwrap(current_provider)) > 0
    /\ Unwrap(current_provider)[1] = "cloud:"

\* C2: a select_provider call that fails does so with RequireManual or
\* NoProvider and leaves current_provider, last_fallback_time and every
\* ProviderMetrics entry as they were before the call.
C2_FailedSelectionKeepsState ==
    [][(SelectCall /\ ~sel'.result.ok) =>
          /\ sel'.result.error \in {"RequireManual", "NoProvider"}
          /\ current_provider' = current_provider
          /\ last_fallback_time' = last_fallback_time
          /\ provider_metrics' = provider_metrics]_vars

C2_Witness ==
    /\ sel.op = "select_provider"
    /\ ~sel.result.ok
    /\ IsSome(current_provider)
    /\ Unwrap(current_provider) \in DOMAIN provider_metrics
    /\ provider_metrics[Unwrap(current_provider)].total_requests > 0

\* C6: a select_provider call made while current_provider is a cloud
\* provider, a fallback time is recorded, auto-return is enabled, the recovery
\* delay has elapsed and some stored record is Healthy returns a Healthy local
\* provider with is_fallback = false and makes it current_provider, whatever
\* the strategy and the context; last_fallback_time and the metrics stay.
C6_ReturnToLocalTransition ==
    [][(/\ SelectCall
        /\ CloudActive
        /\ IsSome(last_fallback_time)
        /\ fcfg.auto_return_to_local
        /\ now - Unwrap(last_fallback_time) >= fcfg.local_recovery_delay_seconds
        /\ \E p \in DOMAIN health_status : health_status[p].status = "Healthy") =>
          /\ sel'.result.ok
          /\ sel'.result.provider_type = "Local"
          /\ ~sel'.result.is_fallback
          /\ sel'.result.provider_name \in DOMAIN health_status
          /\ health_status[sel'.result.provider_name].status = "Healthy"
          /\ current_provider' = Some(sel'.result.provider_name)
          /\ last_fallback_time' = last_fallback_time
          /\ provider_metrics' = provider_metrics]_vars

\* a return to local on a call whose context exhausted the retries, for which
\* the fallback decision would have been the cloud
C6_Witness ==
    /\ sel.op = "select_provider"
    /\ sel.returned
    /\ sel.result.ok /\ sel.result.provider_type = "Local"
    /\ fcfg.strategy = "Graceful"
    /\ sel.context.consecutive_failures >= fcfg.max_retries
    /\ current_provider = Some(sel.result.provider_name)

\* C7: a select_provider call that yields a cloud provider while
\* current_provider is already a cloud provider leaves last_fallback_time
\* unchanged.
C7_FallbackTimeOnlyOnTransition ==
    [][(/\ SelectCall
        /\ sel'.result.ok
        /\ sel'.result.provider_type = "Cloud"
        /\ CloudActive) =>
          last_fallback_time' = last_fallback_time]_vars

(***************************************************************************)
(* Claims about the model cache (SpecCache).                               *)
(***************************************************************************)
RECURSIVE SumSizes(_, _)
SumSizes(m, keys) ==
    IF keys = {} THEN 0
    ELSE LET k == CHOOSE x \in keys : TRUE
         IN  m[k].size_bytes + SumSizes(m, keys \ {k})

\* C1: after any sequence of cache calls (hits, misses, evictions, failed
\* insertions), on a cache of any capacity, the sizes of the cached entries
\* add up to at most max_size_bytes.
C1_CacheSizeBound == SumSizes(models, DOMAIN models) <= max_size_bytes

\* a cache that is full after an eviction made room for the last insertion
C1_Witness ==
    /\ cache_call.op = "apply_model_caching"
    /\ cache_call.result = "miss"
    /\ Cardinality(DOMAIN models) = 2
    /\ \E k \in DOMAIN models : models[k].access_count > 1
    /\ \E k \in DOMAIN models : models[k].cached_at > 1
    /\ SumSizes(models, DOMAIN models) + model_size > max_size_bytes

(***************************************************************************)
(* Claims about the health monitor (SpecHistory, SpecHealth, SpecMonitor). *)
(***************************************************************************)
Min(a, b) == IF a < b THEN a ELSE b

\* the length of the run of results with the given success flag that ends log
RECURSIVE TrailingRun(_, _)
TrailingRun(log, success) ==
    IF log = <<>> THEN 0
    ELSE IF log[Len(log)].success # success THEN 0
    ELSE 1 + TrailingRun(SubSeq(log, 1, Len(log) - 1), success)

\* C11: check_history is a FIFO window of at most 10: after any number of
\* health updates of a provider it has min(number of probes recorded, 10)
\* entries and they are the most recent probe results in arrival order
\* (probe_log holds the results in the order of their insertion).
C11_HistoryIsFifoWindow ==
    \A p \in DOMAIN health_status :
        LET h == health_status[p].check_history
            l == probe_log[p]
        IN  /\ Len(h) = Min(Len(l), HistoryCap)
            /\ h = SubSeq(l, Len(l) - Len(h) + 1, Len(l))

\* C12: after every health update of a provider by calls that follow one
\* another (SpecHistory), consecutive_successes is the
\* length of the trailing run of successful probes and consecutive_failures
\* the length of the trailing run of failed (Unhealthy or errored) probes, so
\* one of the two is always 0.
C12_CountersTrackStreak ==
    \A p \in DOMAIN health_status :
        /\ health_status[p].consecutive_successes = TrailingRun(probe_log[p], TRUE)
        /\ health_status[p].consecutive_failures = TrailingRun(probe_log[p], FALSE)

C12_Witness ==
    /\ Ollama \in DOMAIN health_status
    /\ health_status[Ollama].consecutive_successes = 2
    /\ health_status[Ollama].consecutive_failures = 0
    /\ Len(probe_log[Ollama]) = 5
    /\ ~probe_log[Ollama][3].success
    /\ probe_log[Ollama][3].error
    /\ ~probe_log[Ollama][2].success
    /\ ~probe_log[Ollama][2].error
    /\ probe_log[Ollama][1].success

\* C13: a probe error never reaches the caller: force_check fails exactly when
\* the provider has no checker, force_check_all returns Ok with an entry for
\* every checker, and a provider whose probe errored is reported Unhealthy
\* and, by the insert of that probe, stored Unhealthy with the failure as
\* the newest entry of its history.
ErrStoredIn(hs, p) ==
    /\ p \in DOMAIN hs
    /\ hs[p].status = "Unhealthy"
    /\ LET h == hs[p].check_history
       IN  h # <<>> /\ h[Len(h)] = [success |-> FALSE, error |-> TRUE]

ErrStored(p) == ErrStoredIn(health_status, p)

C13_ProbeErrorIsAbsorbed ==
    [][/\ (hm' # hm /\ hm'.op = "force_check") =>
             /\ hm'.ok <=> hm'.provider_name \in checkers
             /\ (hm'.ok /\ hm'.outcome = "Err") =>
                    /\ hm'.status = Some("Unhealthy")
                    /\ ErrStoredIn(health_status', hm'.provider_name)
       /\ (hm' # hm /\ hm'.op = "force_check_all") =>
             /\ hm'.ok
             /\ DOMAIN hm'.results = checkers
             /\ \A p \in checkers :
                    hm'.outcomes[p] = "Err" => hm'.results[p] = "Unhealthy"
       /\ \A t \in DOMAIN probe_tasks :
             (/\ probe_tasks[t].pc = "writing"
              /\ probe_tasks'[t] # probe_tasks[t]
              /\ probe_tasks[t].outcome = Some("Err"))
                => ErrStoredIn(health_status', probe_tasks[t].provider_name)]_vars

C13_Witness ==
    /\ hm.op = "force_check"
    /\ hm.provider_name = LmStudio
    /\ hm.ok
    /\ hm.outcome = "Err"
    /\ Len(health_status[LmStudio].check_history) = 2
    /\ health_status[LmStudio].check_history[1].success
    /\ ErrStored(LmStudio)

\* C14: after start every provider with a checker is probed again and again
\* with no caller involved, so once a provider keeps answering an outcome
\* the stored record comes to show it.
Reflects(p, outcome) ==
    /\ p \in DOMAIN health_status
    /\ health_status[p].status = (IF outcome = "Err" THEN "Unhealthy" ELSE outcome)

C14_RecurringProbes ==
    \A outcome \in ProbeOutcomes :
        (<>[](started /\ env_status[Ollama] = outcome)) => <>[]Reflects(Ollama, outcome)

\* C15: every list a get_providers_by_health call returns holds the records
\* stored at the time of the call, with every Healthy entry before every
\* Degraded one and every Degraded one before every Unhealthy one.
SnapshotOrdered(r, hs) ==
    /\ Len(r) = Cardinality(DOMAIN hs)
    /\ \A i \in 1..Len(r) :
           /\ r[i].name \in DOMAIN hs
           /\ r[i].status = hs[r[i].name].status
    /\ \A i, j \in 1..Len(r) :
           i < j => /\ r[i].name # r[j].name
                    /\ ~(r[i].status = "Degraded" /\ r[j].status = "Healthy")
                    /\ ~(r[i].status = "Unhealthy" /\ r[j].status # "Unhealthy")

C15_SnapshotOrdered ==
    [][(hm' # hm /\ hm'.op = "get_providers_by_health")
          => SnapshotOrdered(hm'.result, health_status')]_vars

C15_Witness ==
    /\ hm.op = "get_providers_by_health"
    /\ Len(hm.result) = 3
    /\ hm.result[1].status = "Healthy"
    /\ hm.result[2].status = "Degraded"
    /\ hm.result[3].status = "Unhealthy"
    /\ hm.result[1].name = LocalAi

\* C16: a call is_provider_usable(id) returns TRUE exactly when a record of id is stored
\* and its status is Healthy or Degraded; it is FALSE for an Unhealthy record
\* and for a provider that was never probed.
C16_UsableIffHealthyOrDegraded ==
    [][(hm' # hm /\ hm'.op = "is_provider_usable") =>
          (hm'.result <=>
              /\ hm'.provider_name \in DOMAIN health_status'
              /\ health_status'[hm'.provider_name].status
                     \in {"Healthy", "Degraded"})]_vars

C16_Witness ==
    /\ hm.op = "is_provider_usable"
    /\ hm.provider_name = Ollama
    /\ Ollama \in DOMAIN health_status
    /\ health_status[Ollama].status = "Degraded"
    /\ hm.result
    /\ LmStudio \in DOMAIN health_status
    /\ health_status[LmStudio].status = "Unhealthy"
    /\ ~is_provider_usable(health_status, LmStudio)
    /\ ~is_provider_usable(health_status, Unknown)

(***************************************************************************)
(* Claims about the metrics (SpecPerf, SpecMetrics).                       *)
(***************************************************************************)
\* C17: for every provider of the PerformanceMonitor,
\* successful_requests + failed_requests = total_requests after every
\* record_measurement, however the calls of concurrent tasks interleave.
C17_MetricsAdditive ==
    \A p \in DOMAIN pm_metrics :
        pm_metrics[p].successful_requests + pm_metrics[p].failed_requests
            = pm_metrics[p].total_requests

C17_Witness ==
    /\ Ollama \in DOMAIN pm_metrics
    /\ pm_metrics[Ollama].total_requests = 2
    /\ pm_metrics[Ollama].successful_requests = 1
    /\ pm_metrics[Ollama].failed_requests = 1
    /\ "t2" \in DOMAIN pm_tasks
    /\ ~pm_tasks["t2"].success
    /\ pm_tasks["t2"].provider_name = Ollama

RECURSIVE SumSeq(_)
SumSeq(seq) == IF seq = <<>> THEN 0 ELSE Head(seq) + SumSeq(Tail(seq))

\* C18: after initialize, k calls of record_success on a configured provider
\* with no select_provider in between leave successful_requests = k and
\* avg_response_time equal to the mean of the k latencies.
C18_SuccessAverageIsMean ==
    \A p \in DOMAIN provider_metrics :
        (provider_metrics[p].total_requests = 0 /\ success_log[p] # <<>>) =>
            /\ provider_metrics[p].successful_requests = Len(success_log[p])
            /\ provider_metrics[p].avg_response_time * Len(success_log[p])
                   = SumSeq(success_log[p])

\* C19: record_failure on a configured provider changes the metrics of that
\* provider, so that the failed request is counted.
C19_FailureIsCounted ==
    [][(sel'.op = "record_failure" /\ sel'.provider_name \in DOMAIN provider_metrics)
          => provider_metrics'[sel'.provider_name]
                 # provider_metrics[sel'.provider_name]]_vars

\* C20: recording outcomes is order-independent: from any metrics, two
\* record_success calls, or a record_success and a record_failure call,
\* leave the same counters and average in either order.
C20_RecordingCommutes ==
    \A p \in DOMAIN provider_metrics :
        provider_metrics[p].avg_response_time # U64MaxMs =>
            \A x, y \in LatenciesMs :
                /\ record_success(record_success(provider_metrics, p, x), p, y)
                      = record_success(record_success(provider_metrics, p, y), p, x)
                /\ record_failure(record_success(provider_metrics, p, x), p, "timeout")
                      = record_success(record_failure(provider_metrics, p, "timeout"), p, x)

\* C21: record_success and record_failure leave every health record (status,
\* counters, history), current_provider and last_fallback_time as they were.
C21_OutcomesLeaveHealth ==
    [][sel'.op \in {"record_success", "record_failure"} =>
          /\ health_status' = health_status
          /\ current_provider' = current_provider
          /\ last_fallback_time' = last_fallback_time]_vars

C21_Witness ==
    /\ sel.op = "record_failure"
    /\ sel.provider_name = Ollama
    /\ Ollama \in DOMAIN health_status
    /\ health_status[Ollama].status = "Healthy"
    /\ health_status[Ollama].consecutive_successes = 1
    /\ current_provider = Some(format_cloud(<<"openai">>))
    /\ last_fallback_time = Some(0)
    /\ success_log[format_cloud(<<"openai">>)] # <<>>

(***************************************************************************)
(* Further claims about the model cache (SpecCache, SpecEvict).            *)
(***************************************************************************)
CacheCalled == cache_call.op = "apply_model_caching"

\* C22: eviction is least recently used first, where a hit refreshes
\* last_accessed: a miss that needs space evicts one entry, and no entry that
\* stays in the cache was last accessed strictly before the evicted one.
C22_LruEviction ==
    CacheCalled =>
        /\ Cardinality(DOMAIN cache_call.evicted) <= 1
        /\ \A k \in DOMAIN cache_call.evicted :
               \A j \in DOMAIN models \ {cache_call.key} :
                   cache_call.evicted[k].last_accessed <= models[j].last_accessed
        /\ cache_call.result = "hit" =>
               models[cache_call.key].last_accessed = now

\* three entries were cached at different times, the oldest of them was
\* refreshed by a hit, and the fourth insert evicted another one
C22_Witness ==
    /\ CacheCalled
    /\ cache_call.result = "miss"
    /\ Cardinality(DOMAIN models) = 3
    /\ \E k \in DOMAIN cache_call.evicted :
           \E j \in DOMAIN models \ {cache_call.key} :
               /\ models[j].cached_at < cache_call.evicted[k].cached_at
               /\ models[j].access_count = 2
               /\ cache_call.evicted[k].last_accessed < models[j].last_accessed
               /\ \E i \in DOMAIN models \ {cache_call.key, j} :
                      cache_call.evicted[k].last_accessed < models[i].last_accessed

\* C23: a miss that cannot free enough space even by evicting every entry
\* returns an error, and the new entry is neither in the cache nor counted in
\* total_size_bytes.
C23_NoPartialInsert ==
    [][(/\ cache_call'.op = "apply_model_caching"
        /\ cache_call'.key \notin DOMAIN models
        /\ total_size_bytes + model_size > max_size_bytes
        /\ SumSizes(models, DOMAIN models) < model_size)
          => /\ cache_call'.result = "error"
             /\ cache_call'.key \notin DOMAIN models'
             /\ total_size_bytes' = SumSizes(models', DOMAIN models')]_vars

C23_Witness ==
    /\ CacheCalled
    /\ cache_call.result = "error"
    /\ max_size_bytes = cache_capacity(50)
    /\ cache_call.key \notin DOMAIN models
    /\ total_size_bytes = 0
    /\ now = 1

\* C24: evict_lru_models(space_needed) returns Ok whenever
\* space_needed <= max_size_bytes, with the entries it needed evicted: a
\* 200 MB cache holding one 100 MB entry and asked for 150 MB returns Ok
\* (test_model_cache_eviction). cache_call is the record of the last call.
C24_EvictionFitsCapacity ==
    (cache_call.op = "evict_lru_models" /\ cache_call.space_needed <= max_size_bytes)
        => cache_call.ok

\* C25: a call for a key already in the cache increments access_count of that
\* entry by 1 and sets its last_accessed to the present, and leaves the set of
\* entries, every size_bytes, every other entry and total_size_bytes unchanged.
C25_HitTouchesMetadataOnly ==
    [][(cache_call'.op = "apply_model_caching" /\ cache_call'.key \in DOMAIN models)
          => LET key == cache_call'.key
             IN  /\ cache_call'.result = "hit"
                 /\ DOMAIN models' = DOMAIN models
                 /\ models'[key].access_count = models[key].access_count + 1
                 /\ models'[key].last_accessed = now
                 /\ models'[key].size_bytes = models[key].size_bytes
                 /\ models'[key].cached_at = models[key].cached_at
                 /\ \A k \in DOMAIN models \ {key} : models'[k] = models[k]
                 /\ total_size_bytes' = total_size_bytes]_vars

C25_Witness ==
    /\ CacheCalled
    /\ cache_call.result = "hit"
    /\ Cardinality(DOMAIN models) = 1
    /\ models[cache_call.key].access_count = 2
    /\ models[cache_call.key].cached_at = 0
    /\ models[cache_call.key].last_accessed = 1
    /\ total_size_bytes = model_size

\* C30: eviction is deterministic: whatever order the entries are visited
\* in, a miss that needs space evicts the same entries.
C30_EvictionDeterministic ==
    \A o1, o2 \in LruOrders(models) :
        evict_lru_models(models, total_size_bytes, o1, model_size).models
            = evict_lru_models(models, total_size_bytes, o2, model_size).models

(***************************************************************************)
(* Construction and configuration (SpecConstruct).                         *)
(***************************************************************************)
\* C26: configuration is validated at construction: select_provider never
\* runs with a configuration that FallbackConfig::validate or
\* HealthCheckConfig::validate rejects.
C26_ValidatedAtConstruction ==
    sel.op = "select_provider" =>
        /\ fallback_config_validate(fcfg)
        /\ health_check_config_validate(hccfg)

(***************************************************************************)
(* Hysteresis of the selector (SpecSelector).                              *)
(***************************************************************************)
\* C27: once a select_provider call has fallen back to a cloud provider, no
\* later select_provider call returns a local provider until
\* local_recovery_delay_seconds have elapsed since that fallback.
C27_Hysteresis ==
    [][(/\ SelectCall
        /\ last_fallback_time # None
        /\ now - last_fallback_time[1] < fcfg.local_recovery_delay_seconds)
          => ~(sel'.result.ok /\ sel'.result.provider_type = "Local")]_vars

(***************************************************************************)
(* Thresholds of the health check (SpecHistory).                           *)
(***************************************************************************)
\* C28: status changes are debounced by the thresholds of the health check:
\* a usable provider becomes Unhealthy only once failure_threshold
\* consecutive probes have failed, and an Unhealthy provider becomes usable
\* only once success_threshold consecutive probes have succeeded.
C28_Debounced ==
    [][\A p \in DOMAIN health_status \cap DOMAIN health_status' :
          /\ (/\ is_provider_usable(health_status, p)
              /\ health_status'[p].status = "Unhealthy")
                => health_status'[p].consecutive_failures >= hccfg.failure_threshold
          /\ (/\ health_status[p].status = "Unhealthy"
              /\ is_provider_usable(health_status', p))
                => health_status'[p].consecutive_successes >= hccfg.success_threshold]_vars

(***************************************************************************)
(* The lock of the health records (SpecProbe).                             *)
(***************************************************************************)
Probing == { t \in DOMAIN probe_tasks : probe_tasks[t].pc = "probing" }

\* C29: no lock is held across a probe: a task whose check_health call is in
\* flight holds neither the read nor the write lock of health_status, and the
\* lock is held only by tasks that are reading or writing the records, so a
\* query can take the read lock while probes are in flight.
C29_NoLockAcrossProbe ==
    /\ \A t \in Probing : t \notin hs_lock.readers /\ hs_lock.writer # Some(t)
    /\ hs_lock.readers =
           { t \in DOMAIN probe_tasks : probe_tasks[t].pc \in {"reading", "querying"} }
    /\ \A t \in DOMAIN probe_tasks :
           hs_lock.writer = Some(t) <=> probe_tasks[t].pc = "writing"
    /\ (Probing # {} /\ \A t \in DOMAIN probe_tasks :
                           probe_tasks[t].pc \in {"probing", "idle"})
          => hs_lock = NoLock

\* a query holds the read lock while the probe of another task is in flight,
\* after an earlier probe has been stored
C29_Witness ==
    /\ probe_tasks["t1"].pc = "probing"
    /\ probe_tasks["t2"].pc = "querying"
    /\ hs_lock.readers = {"t2"}
    /\ Ollama \in DOMAIN health_status
    /\ hm.op = "is_provider_usable"

(***************************************************************************)
(* Expiry of cached models (SpecCache).                                    *)
(***************************************************************************)
\* C31: TTL expiry is checked on access: a call for a cached key whose entry
\* is older than its ttl is not served as a hit, and the access_count of the
\* expired entry is not bumped.
C31_ExpiredIsNotHit ==
    [][(/\ cache_call'.op = "apply_model_caching"
        /\ cache_call'.key \in DOMAIN models
        /\ now - models[cache_call'.key].cached_at > models[cache_call'.key].ttl)
          => /\ cache_call'.result # "hit"
             /\ cache_call'.key \in DOMAIN models' =>
                    models'[cache_call'.key].access_count
                        # models[cache_call'.key].access_count + 1]_vars

(***************************************************************************)
(* What select_provider returns (SpecSelector).                            *)
(***************************************************************************)
SelectedLocal ==
    /\ sel.op = "select_provider"
    /\ sel.result.ok
    /\ sel.result.provider_type = "Local"

\* C32: select_provider never routes to a dead local provider: a local
\* provider it returns, by the fallback decision or by the return-to-local
\* path, has a stored health status of Healthy or Degraded at the time of the
\* call.
C32_LocalIsUsable ==
    [][(SelectCall /\ sel'.result.ok /\ sel'.result.provider_type = "Local")
          => is_provider_usable(health_status, sel'.result.provider_name)]_vars

\* the return-to-local path picked the Healthy provider while another local
\* provider is stored Unhealthy
C32_Witness ==
    /\ SelectedLocal
    /\ sel.returned
    /\ health_status[sel.result.provider_name].status = "Healthy"
    /\ \E p \in DOMAIN health_status : health_status[p].status = "Unhealthy"

\* C33: every local provider returned by a successful select_provider call
\* supports the requested model, on every path.
C33_LocalSupportsModel ==
    SelectedLocal =>
        provider_supports_model(sel.result.provider_name, sel.context.model_id)

(***************************************************************************)
(* Return to local under repeated calls (SpecReturn).                      *)
(***************************************************************************)
SomeLocalHealthy ==
    \E p \in DOMAIN health_status : health_status[p].status = "Healthy"

\* C34: eventual return to local: if the selector is cloud-active,
\* auto_return_to_local is set and some local provider is Healthy from then
\* on, then under repeated select_provider calls with time advancing some
\* call eventually selects a local provider.
C34_EventualReturn ==
    []((CloudActive /\ fcfg.auto_return_to_local /\ []SomeLocalHealthy)
          => <>SelectedLocal)

(***************************************************************************)
(* Overlapping force_check calls (SpecProbe).                              *)
(***************************************************************************)
HistoryLen(provider_name) ==
    IF provider_name \in DOMAIN health_status
    THEN Len(health_status[provider_name].check_history) ELSE 0

\* the probes of provider_name that were completed and inserted
ProbesCompleted(provider_name) ==
    IF provider_name \in DOMAIN probe_log THEN Len(probe_log[provider_name]) ELSE 0

\* C35: no lost health updates: once the overlapping force_check calls on a
\* provider have returned, every completed probe has contributed one entry to
\* check_history (up to the bound of 10).
C35_NoLostUpdates ==
    AllIdle =>
        /\ HistoryLen(Ollama) = Min(ProbesCompleted(Ollama), HistoryCap)
        /\ Ollama \in DOMAIN health_status =>
               health_status[Ollama].consecutive_successes
                   + health_status[Ollama].consecutive_failures
                 = TrailingRun(probe_log[Ollama],
                               probe_log[Ollama][Len(probe_log[Ollama])].success)

(***************************************************************************)
(* The state of the selector (SpecSelector).                               *)
(***************************************************************************)
\* C36: in every reachable state of the selector, if current_provider is a
\* cloud provider (its name starts with "cloud:") then last_fallback_time is
\* set.
C36_CloudHasFallbackTime ==
    CloudActive => IsSome(last_fallback_time)

\* a select_provider call at time 2 chose a cloud provider while ollama is
\* stored Unhealthy
C36_Witness ==
    /\ CloudActive
    /\ sel.op = "select_provider"
    /\ sel.result.ok
    /\ sel.result.provider_type = "Cloud"
    /\ last_fallback_time = Some(2)
    /\ now = 2
    /\ Ollama \in DOMAIN health_status
    /\ health_status[Ollama].status = "Unhealthy"

(***************************************************************************)
(* The counters of the selector's metrics (SpecMetrics).                   *)
(***************************************************************************)
\* C37: successful_requests <= total_requests holds for every provider after
\* any sequence of initialize, select_provider, record_success and
\* record_failure calls.
C37_SuccessesWithinTotal ==
    \A p \in DOMAIN provider_metrics :
        provider_metrics[p].successful_requests <= provider_metrics[p].total_requests

(***************************************************************************)
(* Consistency of a health record (SpecProbe).                             *)
(***************************************************************************)
\* C38: every stored health record is consistent: its status is usable
\* (Healthy or Degraded) if and only if consecutive_failures = 0, and exactly
\* one of consecutive_failures and consecutive_successes is non-zero.
C38_RecordConsistent ==
    \A p \in DOMAIN health_status :
        /\ is_usable(health_status[p].status)
               <=> health_status[p].consecutive_failures = 0
        /\ (health_status[p].consecutive_failures # 0)
               # (health_status[p].consecutive_successes # 0)

\* a start and a force_check of the same provider have overlapped and both
\* have returned: the record stored last was built from the empty map
C38_Witness ==
    /\ AllIdle
    /\ started
    /\ hm.op = "force_check"
    /\ hm.provider_name = Ollama
    /\ Len(probe_log[Ollama]) = 2
    /\ probe_log[Ollama][1].success
    /\ health_status[Ollama].status = "Unhealthy"
    /\ health_status[Ollama].consecutive_failures = 1
    /\ Len(health_status[Ollama].check_history) = 1

(***************************************************************************)
(* Accounting of the cache size (SpecEvict).                               *)
(***************************************************************************)
\* C39: cache size accounting is exact: in every reachable state of the cache
\* total_size_bytes is the sum of size_bytes over the entries in the cache,
\* never negative, including after a failed eviction.
C39_SizeAccountingExact ==
    /\ total_size_bytes = SumSizes(models, DOMAIN models)
    /\ total_size_bytes >= 0

\* evict_lru_models failed after it had removed the two entries of the cache
C39_Witness ==
    /\ cache_call.op = "evict_lru_models"
    /\ ~cache_call.ok
    /\ Cardinality(DOMAIN cache_call.evicted) = 2
    /\ models = EmptyMap
    /\ total_size_bytes = 0

(***************************************************************************)
(* Response times of the PerformanceMonitor (SpecPerf).                    *)
(***************************************************************************)
\* C40: after every record_measurement, for the provider measured,
\* min_response_time <= avg_response_time <= max_response_time, where min
\* and max are the smallest and the largest duration recorded so far for the
\* provider, and the first measurement sets avg = min = max.
C40_AvgBetweenExtremes ==
    [][\A t \in DOMAIN pm_tasks \ DOMAIN pm_tasks' :
          LET p == pm_tasks[t].provider_name
              x == pm_tasks[t].duration
              new == pm_metrics'[p]
          IN  /\ new.min_response_time <= new.avg_response_time
              /\ new.avg_response_time <= new.max_response_time
              /\ IF p \in DOMAIN pm_metrics
                 THEN /\ new.min_response_time
                             = Min(pm_metrics[p].min_response_time, x)
                      /\ new.max_response_time
                             = IF x > pm_metrics[p].max_response_time THEN x
                               ELSE pm_metrics[p].max_response_time
                 ELSE /\ new.avg_response_time = x
                      /\ new.min_response_time = x
                      /\ new.max_response_time = x]_vars

\* three measurements of 1, 2 and 2 ns: the truncated running mean is 1 ns
C40_Witness ==
    \E p \in DOMAIN pm_metrics :
        /\ pm_metrics[p].total_requests = 3
        /\ pm_metrics[p].min_response_time = 1
        /\ pm_metrics[p].max_response_time = 2
        /\ pm_metrics[p].avg_response_time = 1
        /\ pm_metrics[p].failed_requests = 1

====
